---------------------------- MODULE Spec2Model ----------------------------
(***************************************************************************)
(* Model of bioptim's OptimizationVector                                   *)
(* (src/bioptim/optimization/optimization_vector.py): the assembler that   *)
(* lays the states, controls and parameters of a multi-phase optimal       *)
(* control program out in one flat decision vector, builds the bounds and  *)
(* the initial guess in the same layout, and decodes a flat solution.      *)
(*                                                                         *)
(* Conventions.                                                            *)
(*  - Phase, node, liberty and collocation-point indices are 0-based as in *)
(*    the source; TLA+ sequences are 1-based, so element i of a Python     *)
(*    list is element i+1 of the sequence that models it.                  *)
(*  - A casadi symbol is modelled by the record that identifies it (kind,  *)
(*    phase, node, liberty, point): two entries are the same symbol iff    *)
(*    the records are equal.  A 1 x (d+1) symbolic row is the sequence of  *)
(*    its d+1 entries.                                                     *)
(*  - A casadi matrix is the sequence of its columns, each column being    *)
(*    the sequence of its rows.                                            *)
(*  - Numeric values are integers in hundredths (3.14 is 314).  Scale      *)
(*    factors are 1 or 2 and every physical value is even, so value/scale  *)
(*    is exact and \div computes it.                                       *)
(***************************************************************************)
EXTENDS Integers, Sequences, FiniteSets, TLC

(***************************************************************************)
(* Bounds of the model.                                                    *)
(***************************************************************************)
MaxPhases == 2
MaxNs == 3
MaxNq == 2
MaxDegree == 1
MaxParamSize == 1
MaxParameters == 2
MaxActuators == 2

VARIABLES
    ocp,                 \* the program the assembler was constructed for
    pc,                  \* position in the lifecycle of the assembler
    X, X_scaled,         \* nlp.X, nlp.X_scaled of every phase
    U, U_scaled,         \* nlp.U, nlp.U_scaled of every phase
    x_scaled, u_scaled,  \* self.x_scaled, self.u_scaled of every phase
    n_phase_x, n_phase_u,
    n_all_x, n_all_u,
    x_bounds, u_bounds,
    x_init, u_init,
    parameters_in_list,
    added,               \* the calls of add_parameter so far, with their outcome
    decoded,             \* what the last to_dictionaries call returned
    raised,              \* the exception the last call of the assembler raised
    model,               \* nlp.model: what the parameter callbacks did to it
    evaluation,          \* the last evaluation of a dynamics function
    scenarios            \* the evaluations in flight on the shared model

vars == <<ocp, pc, X, X_scaled, U, U_scaled, x_scaled, u_scaled,
          n_phase_x, n_phase_u, n_all_x, n_all_u,
          x_bounds, u_bounds, x_init, u_init, parameters_in_list, added, decoded,
          raised, model, evaluation, scenarios>>

\* what the assembler owns, and what the dynamics functions own
assemblerVars == <<ocp, pc, X, X_scaled, U, U_scaled, x_scaled, u_scaled,
                   n_phase_x, n_phase_u, n_all_x, n_all_u,
                   x_bounds, u_bounds, x_init, u_init, decoded, raised>>
dynamicsVars == <<model, evaluation, scenarios>>

layoutVars == <<X, X_scaled, U, U_scaled, x_scaled, u_scaled,
                n_phase_x, n_phase_u, n_all_x, n_all_u>>

(***************************************************************************)
(* Python helpers.                                                         *)
(***************************************************************************)
RECURSIVE Flatten(_)
Flatten(ss) == IF ss = <<>> THEN <<>> ELSE Head(ss) \o Flatten(Tail(ss))

RECURSIVE SumSeq(_)
SumSeq(s) == IF s = <<>> THEN 0 ELSE Head(s) + SumSeq(Tail(s))

Min2(a, b) == IF a < b THEN a ELSE b
Max2(a, b) == IF a > b THEN a ELSE b

\* range(n) as a list
Range(n) == [i \in 1..n |-> i - 1]

\* v[a:b] with Python's treatment of negative and out-of-range indices
PySliceIndex(i, n) == IF i < 0 THEN Max2(i + n, 0) ELSE Min2(i, n)
PySlice(v, a, b) ==
    LET lo == PySliceIndex(a, Len(v))
        hi == PySliceIndex(b, Len(v))
    IN  IF hi <= lo THEN <<>> ELSE SubSeq(v, lo + 1, hi)

\* the list of a per-phase function, phase 0 first
PhaseList(f, n) == [i \in 1..n |-> f[i - 1]]

(***************************************************************************)
(* The program: what the assembler reads from self.ocp.                    *)
(***************************************************************************)
ControlTypes == {"CONSTANT", "LINEAR_CONTINUOUS"}

\* the control types of the program, the one the assembler rejects included
AllControlTypes == ControlTypes \cup {"NONE"}

\* nlp.x_init.type
InterpolationTypes == {"CONSTANT", "ALL_POINTS"}

\* no exception
NoError == [by |-> "none", error |-> "none"]

\* states_phase_mapping_idx.index / controls_phase_mapping_idx.index is None
NoneIndex == {-1}

\* torque driven dynamics: states q and qdot, controls tau
StatesShape(o) == 2 * o.nq
ControlsShape(o) == o.nq
StateSlots(o) == <<[name |-> "q", len |-> o.nq], [name |-> "qdot", len |-> o.nq]>>
ControlSlots(o) == <<[name |-> "tau", len |-> o.nq]>>

is_direct_collocation(nlp) == nlp.degree > 0
is_direct_shooting(nlp) == nlp.degree = 0

\* nlp.x_scaling["all"].scaling[liberty], nlp.u_scaling["all"].scaling[liberty]
XScaling(o, l) == IF o.scaled THEN 1 + ((l + 1) % 2) ELSE 1
UScaling(o, l) == IF o.scaled THEN 2 - ((l + 1) % 2) ELSE 1

\* marks, among the index choices, a block the phase does not share
OwnIt == {-2}

\* Phase p of a program.  o is the phase it takes states (sx) or controls
\* (su) from, sx and su being OwnIt, NoneIndex (all of them) or an index
\* list; d and ct are its own transcription and control type.  A phase that
\* takes states or controls from phase o indexes phase o's node lists with
\* its own k and liberty, so it has phase o's transcription (states) or
\* control type (controls); all phases have ns shooting intervals.
\* use_states_from_phase_idx and use_controls_from_phase_idx name the phase
\* the mapping names.
Phase(p, o, ns, sx, su, d, ct) ==
    [phase_idx |-> p,
     ns |-> ns,
     degree |-> d,
     control_type |-> ct,
     states_phase_mapping_idx |->
        IF sx = OwnIt THEN [phase |-> p, index |-> NoneIndex]
                      ELSE [phase |-> o, index |-> sx],
     controls_phase_mapping_idx |->
        IF su = OwnIt THEN [phase |-> p, index |-> NoneIndex]
                      ELSE [phase |-> o, index |-> su],
     use_states_from_phase_idx |-> IF sx = OwnIt THEN p ELSE o,
     use_controls_from_phase_idx |-> IF su = OwnIt THEN p ELSE o]

NsChoices == {1, MaxNs}
NqChoices == {1, MaxNq}
DegreeChoices == {0, MaxDegree}

FirstPhases ==
    {Phase(0, 0, ns, OwnIt, OwnIt, d, ct) :
        ns \in NsChoices, d \in DegreeChoices, ct \in AllControlTypes}

\* The phases that may follow the phases prev: a phase of its own, like the
\* previous one or differing from it in transcription or in control type,
\* or a phase that takes all or an index list (the positions, the first
\* torque) of the previous phase's states, controls or both.
NextPhases(p, prev, nq) ==
    LET o == p - 1
        ns == prev[o].ns
        d == prev[o].degree
        ct == prev[o].control_type
    IN  {Phase(p, o, ns, OwnIt, OwnIt, dd, ct) : dd \in DegreeChoices}
        \cup {Phase(p, o, ns, OwnIt, OwnIt, d, cc) : cc \in AllControlTypes}
        \cup {Phase(p, o, ns, sx, OwnIt, d, ct) : sx \in {NoneIndex, 0..(nq - 1)}}
        \cup {Phase(p, o, ns, OwnIt, su, d, ct) : su \in {NoneIndex, {0}}}
        \cup {Phase(p, o, ns, NoneIndex, NoneIndex, d, ct)}

RECURSIVE NlpLists(_, _)
NlpLists(n, nq) ==
    IF n = 1 THEN {(0 :> ph) : ph \in FirstPhases}
    ELSE UNION {{prev @@ ((n - 1) :> ph) : ph \in NextPhases(n - 1, prev, nq)} :
                    prev \in NlpLists(n - 1, nq)}

Programs ==
    UNION {{[n_phases |-> n, nq |-> nq, scaled |-> sc, nlp |-> l] :
                l \in NlpLists(n, nq)} :
            n \in 1..MaxPhases, nq \in NqChoices, sc \in BOOLEAN}

\* A program whose first phase takes all its states from the phase that
\* follows it: the sharing relation names a phase of higher index.
ForwardSharing(program) ==
    [program EXCEPT !.nlp[0] = Phase(0, 1, program.nlp[0].ns, NoneIndex, OwnIt,
                                     program.nlp[0].degree, program.nlp[0].control_type)]

ForwardPrograms ==
    {ForwardSharing(program) :
        program \in {q \in Programs :
                        /\ q.n_phases > 1
                        /\ q.nlp[0].ns = 1 /\ q.nlp[0].degree = 0
                        /\ \A p \in 1..(q.n_phases - 1) :
                              /\ q.nlp[p].use_states_from_phase_idx = p
                              /\ q.nlp[p].use_controls_from_phase_idx = p}}

Phases == 0..(ocp.n_phases - 1)

(***************************************************************************)
(* The series of bounds and initial guesses the user gave each phase.      *)
(* Bounds are CONSTANT_WITH_FIRST_AND_LAST_DIFFERENT: the first and the    *)
(* last node are pinned (min = max), the nodes in between have a range.    *)
(* Initial guesses are CONSTANT.                                           *)
(***************************************************************************)
\* x_bounds[:, [0, -1]] = 0 ; x_bounds[1, -1] = 3.14
XPinFirst(l) == 0
XPinLast(l) == IF l = 1 THEN 314 ELSE 0
XRange(l) == 1000 * (l + 1)

\* nlp.x_bounds.min/max.evaluate_at(shooting_point=point), after
\* check_and_adjust_dimensions(n_elements, n_shooting)
XBoundsEvaluateAt(n_shooting, point) ==
    [l \in 1..StatesShape(ocp) |->
        IF point = 0 THEN [min |-> XPinFirst(l - 1), max |-> XPinFirst(l - 1)]
        ELSE IF point = n_shooting
             THEN [min |-> XPinLast(l - 1), max |-> XPinLast(l - 1)]
             ELSE [min |-> 0 - XRange(l - 1), max |-> XRange(l - 1)]]

\* u_bounds = Bounds([tau_min] * n_tau, [tau_max] * n_tau), CONSTANT
UBoundsEvaluateAt(point) ==
    [l \in 1..ControlsShape(ocp) |-> [min |-> 0 - 10000, max |-> 10000]]

\* nlp.x_init.init.evaluate_at / nlp.u_init.init.evaluate_at, CONSTANT
XInitEvaluateAt(point) == [l \in 1..StatesShape(ocp) |-> 20 * l]
\* evaluate_at of an ALL_POINTS table: its column of that index
AllPointsEvaluateAt(point) == [l \in 1..StatesShape(ocp) |-> 20 * l + point + 1]
UInitEvaluateAt(point) == [l \in 1..ControlsShape(ocp) |-> 60 + 20 * l]

(***************************************************************************)
(* define_ocp_shooting_points                                              *)
(***************************************************************************)
IndexX(p) ==
    IF ocp.nlp[p].states_phase_mapping_idx.index # NoneIndex
    THEN ocp.nlp[p].states_phase_mapping_idx.index
    ELSE 0..(StatesShape(ocp) - 1)

IndexU(p) ==
    IF ocp.nlp[p].controls_phase_mapping_idx.index # NoneIndex
    THEN ocp.nlp[p].controls_phase_mapping_idx.index
    ELSE 0..(ControlsShape(ocp) - 1)

\* nlp.cx.sym("X_scaled...", 1, polynomial_degree + 1) or (..., 1, 1): the
\* row of symbols created for liberty l at node k of phase p
NewXSym(p, k, l) ==
    LET nlp == ocp.nlp[p]
        w == IF k # nlp.ns /\ is_direct_collocation(nlp) THEN nlp.degree + 1 ELSE 1
    IN  [c \in 1..w |-> [kind |-> "X", phase |-> p, node |-> k,
                         liberty |-> l, point |-> c - 1]]

NewUSym(p, k, l) ==
    <<[kind |-> "U", phase |-> p, node |-> k, liberty |-> l, point |-> 0]>>

\* x_scaled[p][k][liberty] of the local lists: created, or the very entry
\* of the phase the states are mapped from
RECURSIVE XScaledEntry(_, _, _)
XScaledEntry(p, k, l) ==
    LET nlp == ocp.nlp[p] IN
    IF nlp.phase_idx = nlp.states_phase_mapping_idx.phase
    THEN NewXSym(p, k, l)
    ELSE IF l \in IndexX(p)
         THEN XScaledEntry(nlp.states_phase_mapping_idx.phase, k, l)
         ELSE NewXSym(p, k, l)

\* x[p][k][liberty]: x_scaled * scaling, or the owner's expression
RECURSIVE XEntry(_, _, _)
XEntry(p, k, l) ==
    LET nlp == ocp.nlp[p]
        mul == [c \in 1..Len(XScaledEntry(p, k, l)) |->
                   [sym |-> XScaledEntry(p, k, l)[c], scaling |-> XScaling(ocp, l)]]
    IN
    IF nlp.phase_idx = nlp.states_phase_mapping_idx.phase
    THEN mul
    ELSE IF l \in IndexX(p)
         THEN XEntry(nlp.states_phase_mapping_idx.phase, k, l)
         ELSE mul

\* a control loop that does not skip the final node of a CONSTANT phase
HasControlAtEveryNode(p, k) == k \in 0..ocp.nlp[p].ns

\* the control loop body runs at node k
HasControlAt(p, k) ==
    LET nlp == ocp.nlp[p] IN
    nlp.control_type # "CONSTANT" \/ (nlp.control_type = "CONSTANT" /\ k # nlp.ns)

RECURSIVE UScaledEntry(_, _, _)
UScaledEntry(p, k, l) ==
    LET nlp == ocp.nlp[p] IN
    IF nlp.phase_idx = nlp.controls_phase_mapping_idx.phase
    THEN NewUSym(p, k, l)
    ELSE IF l \in IndexU(p)
         THEN UScaledEntry(nlp.controls_phase_mapping_idx.phase, k, l)
         ELSE NewUSym(p, k, l)

RECURSIVE UEntry(_, _, _)
UEntry(p, k, l) ==
    LET nlp == ocp.nlp[p]
        mul == [c \in 1..Len(UScaledEntry(p, k, l)) |->
                   [sym |-> UScaledEntry(p, k, l)[c], scaling |-> UScaling(ocp, l)]]
    IN
    IF nlp.phase_idx = nlp.controls_phase_mapping_idx.phase
    THEN mul
    ELSE IF l \in IndexU(p)
         THEN UEntry(nlp.controls_phase_mapping_idx.phase, k, l)
         ELSE mul

\* x_scaled[p], x[p], u_scaled[p], u[p]: node k -> liberty -> row
XScaledNodes(p) ==
    [k \in 1..(ocp.nlp[p].ns + 1) |->
        [l \in 1..StatesShape(ocp) |-> XScaledEntry(p, k - 1, l - 1)]]
XNodes(p) ==
    [k \in 1..(ocp.nlp[p].ns + 1) |->
        [l \in 1..StatesShape(ocp) |-> XEntry(p, k - 1, l - 1)]]
UScaledNodes(p) ==
    [k \in 1..(ocp.nlp[p].ns + 1) |->
        IF HasControlAt(p, k - 1)
        THEN [l \in 1..ControlsShape(ocp) |-> UScaledEntry(p, k - 1, l - 1)]
        ELSE <<>>]
UNodes(p) ==
    [k \in 1..(ocp.nlp[p].ns + 1) |->
        IF HasControlAt(p, k - 1)
        THEN [l \in 1..ControlsShape(ocp) |-> UEntry(p, k - 1, l - 1)]
        ELSE <<>>]

\* vertcat(*rows): the columns of the stacked 1 x w rows; vertcat() of an
\* empty list has no column
Vertcat(rows) ==
    IF rows = <<>> THEN <<>>
    ELSE [c \in 1..Len(rows[1]) |-> [l \in 1..Len(rows) |-> rows[l][c]]]

\* horzcat of the vertcat of every node: the matrix self.x_scaled[p]
HorzcatNodes(nodes) == Flatten([k \in 1..Len(nodes) |-> Vertcat(nodes[k])])

\* m.size()[0]: the number of rows
Size0(m) == IF m = <<>> THEN 0 ELSE Len(m[1])

NPhaseX(p, m) ==
    LET nlp == ocp.nlp[p] IN
    IF nlp.states_phase_mapping_idx.index # NoneIndex
    THEN Size0(m) - Cardinality(nlp.states_phase_mapping_idx.index) * (nlp.ns + 1)
    ELSE Size0(m)

NPhaseU(p, m) ==
    LET nlp == ocp.nlp[p] IN
    IF nlp.controls_phase_mapping_idx.index # NoneIndex
    THEN Size0(m) - Cardinality(nlp.controls_phase_mapping_idx.index)
                        * (IF nlp.control_type # "CONSTANT" THEN nlp.ns + 1 ELSE nlp.ns)
    ELSE Size0(m)

\* the phases whose control type line 460 rejects
RejectedPhases == {p \in Phases : ocp.nlp[p].control_type \notin ControlTypes}

\* The phases that take states or controls from a phase of higher index:
\* x_scaled (u_scaled) has no list for that phase yet when the loop is at
\* p, so x_scaled[phase][k][liberty] raises IndexError.
ReadsMissingLayout ==
    {p \in Phases : \/ ocp.nlp[p].states_phase_mapping_idx.phase > p
                    \/ ocp.nlp[p].controls_phase_mapping_idx.phase > p}

\* the phases whose iteration raises, and what the first of them raises
FailingPhases == RejectedPhases \cup ReadsMissingLayout
FirstError ==
    LET first == CHOOSE p \in FailingPhases : \A r \in FailingPhases : p <= r
    IN  IF first \in RejectedPhases THEN "NotImplementedError" ELSE "IndexError"

\* The phases the loop over ocp.nlp completes: all of them, or those before
\* the first phase it raises at.
DeclaredPhases ==
    {p \in Phases : \A r \in FailingPhases : p < r}

\* One call.  Everything a completed iteration assigned stays assigned when
\* a later iteration raises; n_all_x and n_all_u are summed after the loop.
define_ocp_shooting_points ==
    /\ pc = "UNBUILT"
    /\ X_scaled' = [p \in Phases |->
                       IF p \in DeclaredPhases THEN XScaledNodes(p) ELSE X_scaled[p]]
    /\ X' = [p \in Phases |-> IF p \in DeclaredPhases THEN XNodes(p) ELSE X[p]]
    /\ U_scaled' = [p \in Phases |->
                       IF p \in DeclaredPhases THEN UScaledNodes(p) ELSE U_scaled[p]]
    /\ U' = [p \in Phases |-> IF p \in DeclaredPhases THEN UNodes(p) ELSE U[p]]
    /\ x_scaled' = [p \in Phases |->
                       IF p \in DeclaredPhases THEN HorzcatNodes(XScaledNodes(p))
                       ELSE x_scaled[p]]
    /\ u_scaled' = [p \in Phases |->
                       IF p \in DeclaredPhases THEN HorzcatNodes(UScaledNodes(p))
                       ELSE u_scaled[p]]
    /\ n_phase_x' = [p \in Phases |->
                        IF p \in DeclaredPhases
                        THEN NPhaseX(p, HorzcatNodes(XScaledNodes(p)))
                        ELSE n_phase_x[p]]
    /\ n_phase_u' = [p \in Phases |->
                        IF p \in DeclaredPhases
                        THEN NPhaseU(p, HorzcatNodes(UScaledNodes(p)))
                        ELSE n_phase_u[p]]
    /\ IF FailingPhases = {}
       THEN /\ n_all_x' = SumSeq(PhaseList([p \in Phases |->
                               NPhaseX(p, HorzcatNodes(XScaledNodes(p)))], ocp.n_phases))
            /\ n_all_u' = SumSeq(PhaseList([p \in Phases |->
                               NPhaseU(p, HorzcatNodes(UScaledNodes(p)))], ocp.n_phases))
            /\ pc' = "LAYOUTS_DEFINED"
            /\ raised' = NoError
       ELSE /\ UNCHANGED <<n_all_x, n_all_u, pc>>
            /\ raised' = [by |-> "define_ocp_shooting_points", error |-> FirstError]
    /\ UNCHANGED <<ocp, x_bounds, u_bounds, x_init, u_init, parameters_in_list, added, decoded>>
    /\ UNCHANGED dynamicsVars

(***************************************************************************)
(* vector                                                                  *)
(***************************************************************************)
\* the state entries phase p contributes: for k, for liberty
VectorX(p) ==
    LET nlp == ocp.nlp[p] IN
    Flatten([k \in 1..(nlp.ns + 1) |->
        SelectSeq([l \in 1..StatesShape(ocp) |->
                     [liberty |-> l - 1, e |-> x_scaled[p][k][l]]],
                  LAMBDA r : \/ nlp.states_phase_mapping_idx.phase = nlp.phase_idx
                             \/ r.liberty \notin IndexX(p))])

VectorUNode(p, k) ==
    LET nlp == ocp.nlp[p] IN
    IF HasControlAt(p, k)
    THEN SelectSeq([l \in 1..ControlsShape(ocp) |->
                      [liberty |-> l - 1, e |-> u_scaled[p][k + 1][l]]],
                   LAMBDA r : \/ nlp.controls_phase_mapping_idx.phase = nlp.phase_idx
                              \/ r.liberty \notin IndexU(p))
    ELSE <<>>

VectorU(p) == Flatten([k \in 1..(ocp.nlp[p].ns + 1) |-> VectorUNode(p, k - 1)])

Entries(s) == [i \in 1..Len(s) |-> s[i].e]

\* parameters_in_list.cx
ParametersCx == Flatten([i \in 1..Len(parameters_in_list) |-> parameters_in_list[i].cx])

VectorXAll == Flatten([i \in 1..ocp.n_phases |-> Entries(VectorX(i - 1))])
VectorUAll == Flatten([i \in 1..ocp.n_phases |-> Entries(VectorU(i - 1))])

vector == VectorXAll \o VectorUAll \o ParametersCx

(***************************************************************************)
(* define_ocp_bounds, define_ocp_initial_guess                             *)
(***************************************************************************)
\* The block written by the loops "for k in range(ns + 1): for p in
\* range(repeat if k != ns else 1): block[span] = evaluate(point)", with
\* span = [k * outer_offset + p * nx, k * outer_offset + (p + 1) * nx) and
\* point = k if k != 0 else 0 if p == 0 else 1.  Entry i lies in the span of
\* k = i div outer_offset, p = (i mod outer_offset) div nx, and is element
\* i mod nx of the evaluation.
NodeBlock(ns, nx, repeat, evaluate) ==
    LET all_nx == nx * ns * repeat + nx
        outer_offset == nx * repeat
    IN  [j \in 1..all_nx |->
            LET i == j - 1
                k == i \div outer_offset
                p == (i % outer_offset) \div nx
                point == IF k # 0 THEN k ELSE IF p = 0 THEN 0 ELSE 1
            IN  evaluate[point][(i % nx) + 1]]

XBoundsBlock(p) ==
    LET nlp == ocp.nlp[p]
        repeat == IF is_direct_collocation(nlp) THEN nlp.degree + 1 ELSE 1
    IN  NodeBlock(nlp.ns, StatesShape(ocp), repeat,
                  [point \in 0..nlp.ns |-> XBoundsEvaluateAt(nlp.ns, point)])

\* control blocks built for one sample per node, whatever the control type
ControlNsEveryNode(p) == ocp.nlp[p].ns + 1

\* number of control samples the bounds and the initial guess are built for
ControlNs(p) ==
    IF ocp.nlp[p].control_type = "CONSTANT" THEN ocp.nlp[p].ns ELSE ocp.nlp[p].ns + 1

\* "for k in range(ns): block[k * nu : (k + 1) * nu] = evaluate(k)"
ControlBlock(ns, nu, evaluate) ==
    [j \in 1..(nu * ns) |-> evaluate[(j - 1) \div nu][((j - 1) % nu) + 1]]

UBoundsBlock(p) ==
    ControlBlock(ControlNs(p), ControlsShape(ocp),
                 [k \in 0..(ControlNs(p) - 1) |-> UBoundsEvaluateAt(k)])

define_ocp_bounds ==
    /\ pc = "LAYOUTS_DEFINED"
    /\ x_bounds' = [p \in Phases |->
                      IF ocp.nlp[p].use_states_from_phase_idx = ocp.nlp[p].phase_idx
                      THEN XBoundsBlock(p) ELSE x_bounds[p]]
    /\ u_bounds' = [p \in Phases |->
                      IF ocp.nlp[p].use_controls_from_phase_idx = ocp.nlp[p].phase_idx
                      THEN UBoundsBlock(p) ELSE u_bounds[p]]
    /\ pc' = "BOUNDS_DEFINED"
    /\ raised' = NoError
    /\ UNCHANGED <<ocp, x_init, u_init, parameters_in_list, added, decoded>>
    /\ UNCHANGED layoutVars
    /\ UNCHANGED dynamicsVars

\* the same loops with point = k * repeat + p, the choice made for a
\* NoisedInitialGuess of type ALL_POINTS
PointBlock(ns, nx, repeat, evaluate) ==
    LET all_nx == nx * ns * repeat + nx
        outer_offset == nx * repeat
    IN  [j \in 1..all_nx |->
            LET i == j - 1
                k == i \div outer_offset
                p == (i % outer_offset) \div nx
            IN  evaluate[k * repeat + p][(i % nx) + 1]]

\* The state block of phase p for nlp.x_init of the type given, noised or
\* plain.  Only a noised ALL_POINTS guess is read at k * repeat + p; a plain
\* one is read at the point the loop starts from, like a CONSTANT one.
XInitBlock(p, type, noised) ==
    LET nlp == ocp.nlp[p]
        repeat == IF is_direct_collocation(nlp) THEN nlp.degree + 1 ELSE 1
    IN  IF type = "ALL_POINTS" /\ noised
        THEN PointBlock(nlp.ns, StatesShape(ocp), repeat,
                        [point \in 0..(nlp.ns * repeat) |-> AllPointsEvaluateAt(point)])
        ELSE IF type = "ALL_POINTS"
        THEN NodeBlock(nlp.ns, StatesShape(ocp), repeat,
                       [point \in 0..nlp.ns |-> AllPointsEvaluateAt(point)])
        ELSE NodeBlock(nlp.ns, StatesShape(ocp), repeat,
                       [point \in 0..nlp.ns |-> XInitEvaluateAt(point)])

UInitBlock(p) ==
    ControlBlock(ControlNs(p), ControlsShape(ocp),
                 [k \in 0..(ControlNs(p) - 1) |-> UInitEvaluateAt(k)])

\* the sanity check made on the phases that own their states only
AllPointsInOwnedPhases(types) ==
    \E p \in Phases :
        /\ ocp.nlp[p].use_states_from_phase_idx = ocp.nlp[p].phase_idx
        /\ is_direct_shooting(ocp.nlp[p])
        /\ types[p] = "ALL_POINTS"

\* the sanity check that opens define_ocp_initial_guess: types[p] is
\* nlp.x_init.type of phase p
AllPointsOutsideCollocation(types) ==
    \E p \in Phases : is_direct_shooting(ocp.nlp[p]) /\ types[p] = "ALL_POINTS"

\* One call for the interpolation types the phases' state initial guesses
\* have, noised[p] telling whether nlp.x_init of phase p is a
\* NoisedInitialGuess.  The sanity loop runs over every phase before any
\* block is built.
define_ocp_initial_guess_of(types, noised) ==
    /\ pc = "BOUNDS_DEFINED"
    /\ IF AllPointsOutsideCollocation(types)
       THEN /\ raised' = [by |-> "define_ocp_initial_guess", error |-> "ValueError"]
            /\ UNCHANGED <<x_init, u_init, pc>>
       ELSE /\ pc' = "VECTOR_READY"
            /\ raised' = NoError
            /\ x_init' = [p \in Phases |->
                            IF ocp.nlp[p].use_states_from_phase_idx = ocp.nlp[p].phase_idx
                            THEN XInitBlock(p, types[p], noised[p]) ELSE x_init[p]]
            /\ u_init' = [p \in Phases |->
                            IF ocp.nlp[p].use_controls_from_phase_idx = ocp.nlp[p].phase_idx
                            THEN UInitBlock(p) ELSE u_init[p]]
    /\ UNCHANGED <<ocp, x_bounds, u_bounds, parameters_in_list, added, decoded>>
    /\ UNCHANGED layoutVars
    /\ UNCHANGED dynamicsVars

\* the call for plain initial guesses
define_ocp_initial_guess(types) ==
    define_ocp_initial_guess_of(types, [p \in Phases |-> FALSE])

DefineOcpInitialGuess ==
    \E types \in [Phases -> InterpolationTypes] : define_ocp_initial_guess(types)

(***************************************************************************)
(* bounds, init                                                            *)
(***************************************************************************)
\* scaling.to_vector(n): the per-liberty scaling repeated n times
ToVector(scaling, shape, n) ==
    [j \in 1..(shape * n) |-> scaling[(j - 1) % shape]]

\* n_steps of bounds() and steps of init(): read from phase 0
NSteps == IF is_direct_collocation(ocp.nlp[0]) THEN ocp.nlp[0].degree + 1 ELSE 1

XScalingVector(p) ==
    ToVector([l \in 0..(StatesShape(ocp) - 1) |-> XScaling(ocp, l)],
             StatesShape(ocp), ocp.nlp[p].ns * NSteps + 1)

UScalingVector(p) ==
    ToVector([l \in 0..(ControlsShape(ocp) - 1) |-> UScaling(ocp, l)], ControlsShape(ocp),
             IF ocp.nlp[0].control_type = "LINEAR_CONTINUOUS"
             THEN ocp.nlp[p].ns + 1 ELSE ocp.nlp[p].ns)

\* block / scaling is elementwise; an empty block stays empty and blocks of
\* different lengths do not divide
CanScale(block, sv) == Len(block) = 0 \/ Len(block) = Len(sv)

BoundsScale(block, sv) ==
    [j \in 1..Len(block) |-> [min |-> block[j].min \div sv[j],
                              max |-> block[j].max \div sv[j]]]

InitScale(block, sv) == [j \in 1..Len(block) |-> block[j] \div sv[j]]

\* bounds() and init() raise instead of returning
ScalingRaises(xb, ub) ==
    \E p \in Phases : \/ ~CanScale(xb[p], XScalingVector(p))
                      \/ ~CanScale(ub[p], UScalingVector(p))

ParametersBounds ==
    Flatten([i \in 1..Len(parameters_in_list) |->
                BoundsScale(parameters_in_list[i].bounds, parameters_in_list[i].scaling)])

ParametersInit ==
    Flatten([i \in 1..Len(parameters_in_list) |->
                InitScale(parameters_in_list[i].initial_guess,
                          parameters_in_list[i].scaling)])

bounds ==
    Flatten([i \in 1..ocp.n_phases |-> BoundsScale(x_bounds[i - 1], XScalingVector(i - 1))])
    \o Flatten([i \in 1..ocp.n_phases |-> BoundsScale(u_bounds[i - 1], UScalingVector(i - 1))])
    \o ParametersBounds

init ==
    Flatten([i \in 1..ocp.n_phases |-> InitScale(x_init[i - 1], XScalingVector(i - 1))])
    \o Flatten([i \in 1..ocp.n_phases |-> InitScale(u_init[i - 1], UScalingVector(i - 1))])
    \o ParametersInit

(***************************************************************************)
(* add_parameter                                                           *)
(***************************************************************************)
\* the parameters the program adds to the pool
ParameterInputs ==
    {[name |-> "time", size |-> 1, function |-> "f", params |-> "a"]}

\* ocp.cx.sym(param.name, param.size, 1): the serial tells the symbols of
\* two parameters of the same name apart
NewParameter(in, serial) ==
    [name |-> in.name, size |-> in.size, function |-> in.function, params |-> in.params,
     cx |-> [j \in 1..in.size |-> [kind |-> "P", phase |-> serial, node |-> 0,
                                   liberty |-> j - 1, point |-> 0]],
     scaling |-> [j \in 1..in.size |-> IF ocp.scaled THEN 2 ELSE 1],
     bounds |-> [j \in 1..in.size |-> [min |-> 20, max |-> 400]],
     initial_guess |-> [j \in 1..in.size |-> 100]]

ParameterIndex(name) ==
    CHOOSE i \in 1..Len(parameters_in_list) : parameters_in_list[i].name = name

\* the total size of the pool
ParametersSize ==
    SumSeq([i \in 1..Len(parameters_in_list) |-> parameters_in_list[i].size])

\* the merge that forgets the bounds and initial guess of the addition
add_parameter_without_merge(in) ==
    LET param == NewParameter(in, ParametersSize)
        names == {parameters_in_list[i].name : i \in 1..Len(parameters_in_list)}
    IN
    /\ IF param.name \in names
       THEN LET i == ParameterIndex(param.name)
                old == parameters_in_list[i]
            IN  /\ parameters_in_list' =
                      [parameters_in_list EXCEPT ![i] =
                          [old EXCEPT !.size = old.size + param.size,
                                      !.cx = old.cx \o param.cx,
                                      !.scaling = old.scaling \o param.scaling]]
                /\ raised' = NoError
       ELSE /\ parameters_in_list' = Append(parameters_in_list, param)
            /\ raised' = NoError
    /\ added' = Append(added, [in |-> in, error |-> raised'.error])
    /\ UNCHANGED <<ocp, pc, x_bounds, u_bounds, x_init, u_init, decoded>>
    /\ UNCHANGED layoutVars
    /\ UNCHANGED dynamicsVars

\* One call of add_parameter.  A parameter of a pooled name is merged into
\* the pooled one field by field, and each of the two sanity checks raises
\* where it stands, after the assignments that precede it.
add_parameter(in) ==
    LET param == NewParameter(in, ParametersSize)
        names == {parameters_in_list[i].name : i \in 1..Len(parameters_in_list)}
    IN
    /\ IF param.name \in names
       THEN LET i == ParameterIndex(param.name)
                old == parameters_in_list[i]
                grown == [old EXCEPT !.size = old.size + param.size,
                                     !.cx = old.cx \o param.cx,
                                     !.scaling = old.scaling \o param.scaling]
                merged == [grown EXCEPT !.bounds = old.bounds \o param.bounds,
                                        !.initial_guess =
                                            old.initial_guess \o param.initial_guess]
            IN  IF param.function # old.function
                THEN /\ UNCHANGED parameters_in_list
                     /\ raised' = [by |-> "add_parameter", error |-> "RuntimeError"]
                ELSE IF param.params # old.params
                     THEN /\ parameters_in_list' =
                                [parameters_in_list EXCEPT ![i] = grown]
                          /\ raised' = [by |-> "add_parameter", error |-> "RuntimeError"]
                     ELSE /\ parameters_in_list' =
                                [parameters_in_list EXCEPT ![i] = merged]
                          /\ raised' = NoError
       ELSE /\ parameters_in_list' = Append(parameters_in_list, param)
            /\ raised' = NoError
    /\ added' = Append(added, [in |-> in, error |-> raised'.error])
    /\ UNCHANGED <<ocp, pc, x_bounds, u_bounds, x_init, u_init, decoded>>
    /\ UNCHANGED layoutVars
    /\ UNCHANGED dynamicsVars

AddParameter ==
    /\ pc # "DECODED"
    /\ ParametersSize < MaxParamSize
    /\ \E in \in ParameterInputs : add_parameter(in)

(***************************************************************************)
(* to_dictionaries                                                         *)
(***************************************************************************)
\* a.reshape((rows, -1), order="F"): the columns of a, or a ValueError when
\* the length of a is no multiple of rows
CanReshape(a, rows) == Len(a) % rows = 0
Reshape(a, rows) ==
    [c \in 1..(Len(a) \div rows) |-> SubSeq(a, (c - 1) * rows + 1, c * rows)]

\* m[first : first + len, :]
Rows(m, first, len) == [c \in 1..Len(m) |-> SubSeq(m[c], first + 1, first + len)]

\* the dictionary of one phase: "all" and one entry per variable
EmptyDict(slots) ==
    [filled |-> FALSE, all |-> <<>>,
     var |-> [n \in {slots[i].name : i \in 1..Len(slots)} |-> <<>>]]

SlotOffset(slots, i) == SumSeq([j \in 1..(i - 1) |-> slots[j].len])

FilledDict(slots, m) ==
    [filled |-> TRUE, all |-> m,
     var |-> [n \in {slots[i].name : i \in 1..Len(slots)} |->
                LET i == CHOOSE j \in 1..Len(slots) : slots[j].name = n
                IN  Rows(m, SlotOffset(slots, i), slots[i].len)]]

\* The loop over the phases that decodes the states (or the controls): p is
\* the phase, offset and p_idx the loop's counters, out the dictionaries so
\* far.  Returns the dictionaries, or <<>> when a reshape raised.
RECURSIVE DecodeBlocks(_, _, _, _, _, _, _, _, _)
DecodeBlocks(v, p, offset, p_idx, out, owns, n_phase, shape, slots) ==
    IF p = ocp.n_phases THEN out
    ELSE IF owns[p]
         THEN LET a == PySlice(v, offset, offset + n_phase[p]) IN
              IF ~CanReshape(a, shape) THEN <<>>
              ELSE DecodeBlocks(v, p + 1, offset + n_phase[p], p_idx + 1,
                                [out EXCEPT ![p_idx + 1] = FilledDict(slots, Reshape(a, shape))],
                                owns, n_phase, shape, slots)
         ELSE DecodeBlocks(v, p + 1, offset, p_idx, out, owns, n_phase, shape, slots)

OwnsStates(p) == ocp.nlp[p].use_states_from_phase_idx = ocp.nlp[p].phase_idx
OwnsControls(p) == ocp.nlp[p].use_controls_from_phase_idx = ocp.nlp[p].phase_idx

DecodeStates(v) ==
    DecodeBlocks(v, 0, 0, 0, [i \in 1..ocp.n_phases |-> EmptyDict(StateSlots(ocp))],
                 [p \in Phases |-> OwnsStates(p)], n_phase_x, StatesShape(ocp), StateSlots(ocp))

DecodeControls(v) ==
    DecodeBlocks(v, 0, n_all_x, 0, [i \in 1..ocp.n_phases |-> EmptyDict(ControlSlots(ocp))],
                 [p \in Phases |-> OwnsControls(p)], n_phase_u, ControlsShape(ocp), ControlSlots(ocp))

\* a * b for two column vectors, with numpy's broadcasting of a length of 1
CanBroadcast(a, b) == Len(a) = Len(b) \/ Len(a) = 1 \/ Len(b) = 1
Broadcast(a, b) ==
    IF Len(a) = Len(b) THEN [j \in 1..Len(a) |-> a[j] * b[j]]
    ELSE IF Len(a) = 1 THEN [j \in 1..Len(b) |-> a[1] * b[j]]
    ELSE [j \in 1..Len(a) |-> a[j] * b[1]]

\* ocp.nlp[0].parameters.scaling: the scaling of every pooled parameter; of
\* an empty pool either an empty column or the neutral [[1]] (empty1)
ParametersScaling(empty1) ==
    IF Len(parameters_in_list) = 0
    THEN (IF empty1 THEN <<1>> ELSE <<>>)
    ELSE Flatten([i \in 1..Len(parameters_in_list) |-> parameters_in_list[i].scaling])

\* the loop over the pool: offset as the loop leaves it before parameter i
ParameterOffset(i) ==
    n_all_x + n_all_u + SumSeq([j \in 1..(i - 1) |-> parameters_in_list[j].size])

ParameterSlice(v, i) ==
    PySlice(v, ParameterOffset(i), ParameterOffset(i) + parameters_in_list[i].size)

DecodeParametersRaises(v, empty1) ==
    \/ ~CanBroadcast(PySlice(v, n_all_x + n_all_u, Len(v)), ParametersScaling(empty1))
    \/ \E i \in 1..Len(parameters_in_list) :
            ~CanBroadcast(ParameterSlice(v, i), parameters_in_list[i].scaling)

DecodeParameters(v, empty1) ==
    [all |-> Broadcast(PySlice(v, n_all_x + n_all_u, Len(v)), ParametersScaling(empty1)),
     byName |-> [i \in 1..Len(parameters_in_list) |->
                    [name |-> parameters_in_list[i].name,
                     value |-> Broadcast(ParameterSlice(v, i),
                                         parameters_in_list[i].scaling)]]]

NotDecoded == [status |-> "none", data |-> <<>>, states |-> <<>>, controls |-> <<>>,
               parameters |-> <<>>, phase_time |-> <<>>]

\* what to_dictionaries(v) returns, or the error it raises
to_dictionaries(v, empty1) ==
    LET data_states == DecodeStates(v)
        data_controls == DecodeControls(v)
    IN  IF \/ data_states = <<>>
           \/ data_controls = <<>>
           \/ DecodeParametersRaises(v, empty1)
        THEN [NotDecoded EXCEPT !.status = "ValueError", !.data = v]
        ELSE [status |-> "returned", data |-> v,
              states |-> data_states,
              controls |-> data_controls,
              parameters |-> DecodeParameters(v, empty1),
              phase_time |-> <<>>]

(***************************************************************************)
(* Flat solutions handed to to_dictionaries.                               *)
(***************************************************************************)
\* the scale factor of a decision symbol
ScaleOf(s) ==
    IF s.kind = "X" THEN XScaling(ocp, s.liberty)
    ELSE IF s.kind = "U" THEN UScaling(ocp, s.liberty)
    ELSE IF ocp.scaled THEN 2 ELSE 1

\* A physical assignment that gives every decision symbol its own value, a
\* multiple of the symbol's scale factor.
Assigned(s) ==
    ScaleOf(s) * (1 + s.point + 4 * s.liberty + 40 * s.node + 400 * s.phase
                    + (IF s.kind = "X" THEN 0 ELSE IF s.kind = "U" THEN 2000 ELSE 4000))

\* the assignment laid out in the order and the scaling of vector()
Internal(vec) == [i \in 1..Len(vec) |-> Assigned(vec[i]) \div ScaleOf(vec[i])]
AssignedVector == Internal(vector)

\* the solver returns a vector of the length of vector() within bounds()
SolverCanRun == ~ScalingRaises(x_bounds, u_bounds) /\ Len(bounds) = Len(vector)
Lower(b) == [i \in 1..Len(b) |-> b[i].min]
Upper(b) == [i \in 1..Len(b) |-> b[i].max]
LowerSolution == Lower(bounds)
UpperSolution == Upper(bounds)

Solutions ==
    {AssignedVector} \cup (IF SolverCanRun THEN {LowerSolution, UpperSolution} ELSE {})

ToDictionaries ==
    /\ pc \in {"VECTOR_READY", "DECODED"}
    /\ \E v \in Solutions, empty1 \in BOOLEAN :
          /\ decoded' = to_dictionaries(v, empty1)
          /\ raised' = IF decoded'.status = "ValueError"
                       THEN [by |-> "to_dictionaries", error |-> "ValueError"]
                       ELSE NoError
    /\ pc' = "DECODED"
    /\ UNCHANGED <<ocp, x_bounds, u_bounds, x_init, u_init, parameters_in_list, added>>
    /\ UNCHANGED layoutVars
    /\ UNCHANGED dynamicsVars

(***************************************************************************)
(* The assembler after __init__, and its lifecycle.                        *)
(***************************************************************************)
(***************************************************************************)
(* DynamicsFunctions.  An evaluation is the list of what the function did   *)
(* to nlp.model, in order (the parameter callbacks it called and the model *)
(* functions it called), and what it returned or raised.                   *)
(***************************************************************************)
RigidBodyDynamics ==
    {"ODE", "DAE_INVERSE_DYNAMICS", "DAE_FORWARD_DYNAMICS",
     "DAE_INVERSE_DYNAMICS_JERK", "DAE_FORWARD_DYNAMICS_JERK"}

\* param.function(nlp.model, parameters[lo : hi], **param.params)
Callback(param, lo, hi) ==
    [ev |-> "callback", name |-> param.name, lo |-> lo, hi |-> hi]

\* nlp.model.<call>(...)
ModelCall(call) == [ev |-> "model", name |-> call, lo |-> 0, hi |-> 0]

\* The loop of apply_parameters from parameter i on: the callbacks it calls.
\* offset moves inside the "if param.function" only.
RECURSIVE ApplyParametersLoop(_, _, _)
ApplyParametersLoop(i, offset, log) ==
    IF i > Len(parameters_in_list) THEN log
    ELSE LET param == parameters_in_list[i] IN
         IF param.function # "None"
         THEN ApplyParametersLoop(i + 1, offset + param.size,
                                  Append(log, Callback(param, offset, offset + param.size)))
         ELSE ApplyParametersLoop(i + 1, offset, log)

apply_parameters == ApplyParametersLoop(1, 0, <<>>)

\* what the callbacks of a log leave in the model
Mutate(m, log) ==
    m \cup {[name |-> log[i].name, lo |-> log[i].lo, hi |-> log[i].hi] :
                i \in {j \in 1..Len(log) : log[j].ev = "callback"}}

(***************************************************************************)
(* Fatigue.  A FatigueList is None or a dictionary of groups               *)
(* (FatigueUniqueList), one per variable; a group has the suffixes of its  *)
(* model and one option per actuator, all indices filled.                  *)
(***************************************************************************)
FatigueOptions(split) ==
    [state_only : BOOLEAN, apply_to_joint_dynamics : BOOLEAN, split_controls : {split}]

FatigueGroups(suffix, splits) ==
    UNION {{[suffix |-> suffix, options |-> o] :
                o \in UNION {[1..n -> FatigueOptions(split)] : n \in {1, MaxActuators}}} :
            split \in splits}

NoneFatigue == [is_none |-> TRUE, groups |-> <<>>]
EmptyFatigue == [is_none |-> FALSE, groups |-> <<>>]

\* MultiFatigueInterface.suffix() is ("fatigue",); the torque models have a
\* suffix per direction
FatigueLists ==
    {NoneFatigue, EmptyFatigue}
    \cup {[is_none |-> FALSE, groups |-> ("tau_scaled" :> g)] :
            g \in FatigueGroups(<<"minus", "plus">>, BOOLEAN)}
    \cup {[is_none |-> FALSE, groups |-> ("muscles_scaled" :> g)] :
            g \in FatigueGroups(<<"fatigue">>, {TRUE})}

\* fatigue is not None and key in fatigue
InFatigue(fatigue, key) == ~fatigue.is_none /\ key \in DOMAIN fatigue.groups

\* sum([t.models.state_only for t in group])
NStateOnly(group) ==
    Cardinality({i \in 1..Len(group.options) : group.options[i].state_only})

\* sum([t.models.apply_to_joint_dynamics for t in group])
NApplyToJointDynamics(group) ==
    Cardinality({i \in 1..Len(group.options) : group.options[i].apply_to_joint_dynamics})

\* the law of one suffix of one actuator: it adds the derivative of that
\* fatigue state below the rows it receives
dynamics_per_suffix(dxdt, suffix, index) ==
    Append(dxdt, [row |-> "fatigue", from |-> suffix, index |-> index,
                  received |-> Len(dxdt)])

\* MultiFatigueModel.dynamics going through the suffixes from the last one
RECURSIVE MultiFatigueModelDynamicsReversed(_, _, _, _)
MultiFatigueModelDynamicsReversed(dxdt, suffix, j, index) ==
    IF j > Len(suffix) THEN dxdt
    ELSE MultiFatigueModelDynamicsReversed(
             dynamics_per_suffix(dxdt, suffix[Len(suffix) - j + 1], index),
             suffix, j + 1, index)

\* MultiFatigueModel.dynamics from suffix j on
RECURSIVE MultiFatigueModelDynamics(_, _, _, _)
MultiFatigueModelDynamics(dxdt, suffix, j, index) ==
    IF j > Len(suffix) THEN dxdt
    ELSE MultiFatigueModelDynamics(dynamics_per_suffix(dxdt, suffix[j], index),
                                   suffix, j + 1, index)

\* FatigueUniqueList.dynamics from element i (0-based) on
RECURSIVE FatigueUniqueListDynamics(_, _, _)
FatigueUniqueListDynamics(dxdt, group, i) ==
    IF i >= Len(group.options) THEN dxdt
    ELSE FatigueUniqueListDynamics(
             MultiFatigueModelDynamics(dxdt, group.suffix, 1, i), group, i + 1)

(***************************************************************************)
(* The dynamics functions.  The phase declares no external forces, so      *)
(* forward_dynamics, inverse_dynamics and contact_forces call the model    *)
(* once.                                                                   *)
(***************************************************************************)
\* one row block of dxdt and the expression it is assigned
Row(name, from) == [row |-> name, from |-> from, index |-> 0, received |-> 0]

NoneDefects == [is_none |-> TRUE, rows |-> <<>>]
Defects(rows) == [is_none |-> FALSE, rows |-> rows]

\* DynamicsEvaluation(dxdt, defects), and an exception leaving the function
Returned(log, dxdt, defects) ==
    [log |-> log, outcome |-> "returned", dxdt |-> dxdt, defects |-> defects]
Raises(log, error) ==
    [log |-> log, outcome |-> error, dxdt |-> <<>>, defects |-> NoneDefects]

\* the arguments of an evaluation and what it reads from nlp: tau_in_controls
\* is "tau_scaled" in nlp.controls, has_excitation is "muscles_scaled" in
\* nlp.states, applies tells whether the user's dynamic_function calls
\* apply_parameters before it calls the model
DefaultInputs ==
    [with_contact |-> FALSE, rigidbody_dynamics |-> "ODE", fatigue |-> NoneFatigue,
     with_torque |-> FALSE, tau_in_controls |-> TRUE, has_excitation |-> FALSE,
     applies |-> FALSE, external_forces |-> 0]

\* __get_fatigable_tau: the tau expression, or the error it raises
get_fatigable_tau(fatigue, tau_in_controls) ==
    LET plain == IF tau_in_controls THEN "controls.tau_scaled" ELSE "states.tau_scaled"
        group == fatigue.groups["tau_scaled"]
    IN  IF ~InFatigue(fatigue, "tau_scaled")
        THEN [error |-> "none", tau |-> plain]
        ELSE IF 0 < NStateOnly(group) /\ NStateOnly(group) < Len(group.options)
        THEN [error |-> "NotImplementedError", tau |-> "none"]
        ELSE IF NApplyToJointDynamics(group) # 0
        THEN [error |-> "NotImplementedError", tau |-> "none"]
        ELSE IF ~group.options[1].split_controls /\ tau_in_controls
        THEN [error |-> "none", tau |-> plain]
        ELSE IF group.options[1].state_only
        THEN [error |-> "none", tau |-> "sum of tau_scaled_suffix"]
        ELSE [error |-> "none", tau |-> "scaled fatigue states"]

forward_dynamics(with_contact) ==
    <<ModelCall(IF with_contact THEN "ForwardDynamicsConstraintsDirect"
                ELSE "ForwardDynamics")>>

compute_tau_from_muscle == <<ModelCall("stateSet"), ModelCall("muscularJointTorque")>>
compute_muscle_dot == <<ModelCall("stateSet"), ModelCall("activationDot")>>
contact_forces ==
    <<ModelCall("getConstraints"), ModelCall("ForwardDynamicsConstraintsDirect")>>

\* the branch torque_driven takes on rigidbody_dynamics, with the jerk modes
\* left to the explicit branch
DeclaredDerivativesWithoutJerk(rigidbody_dynamics) ==
    IF rigidbody_dynamics \in {"DAE_INVERSE_DYNAMICS", "DAE_FORWARD_DYNAMICS"}
    THEN "qddot" ELSE "none"

\* the branch torque_driven takes on rigidbody_dynamics: which declared
\* variables give the derivatives, "none" where forward dynamics does
DeclaredDerivatives(rigidbody_dynamics) ==
    IF rigidbody_dynamics \in {"DAE_INVERSE_DYNAMICS", "DAE_FORWARD_DYNAMICS"}
    THEN "qddot"
    ELSE IF rigidbody_dynamics \in
                {"DAE_INVERSE_DYNAMICS_JERK", "DAE_FORWARD_DYNAMICS_JERK"}
    THEN "qdddot"
    ELSE "none"

\* defects are computed whenever there is no contact, fatigue or not
WithDefectsWithoutContact(in) == ~in.with_contact

\* if not with_contact and fatigue is None
WithDefects(in) == ~in.with_contact /\ in.fatigue.is_none

torque_driven(in) ==
    LET called == Append(apply_parameters, ModelCall("computeQdot"))
        tau == get_fatigable_tau(in.fatigue, in.tau_in_controls)
        dae == DeclaredDerivatives(in.rigidbody_dynamics) = "qddot"
        jerk == DeclaredDerivatives(in.rigidbody_dynamics) = "qdddot"
        solved == IF dae \/ jerk THEN called
                  ELSE called \o forward_dynamics(in.with_contact)
        dxdt == IF dae
                THEN <<Row("q_scaled", "dq"),
                       Row("qdot_scaled", "controls.qddot_scaled")>>
                ELSE IF jerk
                THEN <<Row("q_scaled", "dq"),
                       Row("qdot_scaled", "states.qddot_scaled"),
                       Row("qddot_scaled", "controls.qdddot_scaled")>>
                ELSE <<Row("q_scaled", "dq"), Row("qdot_scaled", "ddq")>>
        fatigued == IF InFatigue(in.fatigue, "tau_scaled")
                    THEN FatigueUniqueListDynamics(dxdt, in.fatigue.groups["tau_scaled"], 0)
                    ELSE dxdt
        with_defects == WithDefects(in)
    IN  IF tau.error # "none" THEN Raises(called, tau.error)
        ELSE IF with_defects
        THEN Returned(solved \o <<ModelCall("InverseDynamics"), ModelCall("computeQdot")>>,
                      fatigued,
                      Defects(<<Row("dq", "dq - computeQdot(states_dot)"),
                                Row("tau", tau.tau \o " - tau_id")>>))
        ELSE Returned(solved, fatigued, NoneDefects)

torque_activations_driven(in) ==
    Returned(apply_parameters
                \o <<ModelCall("torque"), ModelCall("computeQdot")>>
                \o forward_dynamics(in.with_contact),
             <<Row("q_scaled", "dq"), Row("qdot_scaled", "ddq")>>, NoneDefects)

torque_derivative_driven(in) ==
    LET called == Append(apply_parameters, ModelCall("computeQdot")) IN
    IF in.rigidbody_dynamics \in {"DAE_INVERSE_DYNAMICS", "DAE_FORWARD_DYNAMICS"}
    THEN Returned(called,
                  <<Row("q_scaled", "dq"), Row("qdot_scaled", "states.qddot_scaled"),
                    Row("qddot_scaled", "controls.qdddot_scaled"),
                    Row("tau_scaled", "controls.taudot_scaled")>>, NoneDefects)
    ELSE Returned(called \o forward_dynamics(in.with_contact),
                  <<Row("q_scaled", "dq"), Row("qdot_scaled", "ddq"),
                    Row("tau_scaled", "controls.taudot_scaled")>>, NoneDefects)

forces_from_torque_driven(in) ==
    Returned(apply_parameters \o contact_forces, <<Row("forces", "getForce")>>,
             NoneDefects)

forces_from_torque_activation_driven(in) ==
    Returned(apply_parameters \o <<ModelCall("torque")>> \o contact_forces,
             <<Row("forces", "getForce")>>, NoneDefects)

\* the sanity checks of muscles_driven on the muscle group; the models of a
\* group are of one type
MusclesFatigueError(fatigue) ==
    LET group == fatigue.groups["muscles_scaled"] IN
    IF ~InFatigue(fatigue, "muscles_scaled") THEN "none"
    ELSE IF 0 < NStateOnly(group) /\ NStateOnly(group) < Len(group.options)
    THEN "NotImplementedError"
    ELSE IF 0 < NApplyToJointDynamics(group)
            /\ NApplyToJointDynamics(group) < Len(group.options)
    THEN "NotImplementedError"
    ELSE "none"

muscles_driven(in) ==
    LET applied == apply_parameters
        residual_tau == IF in.with_torque
                        THEN get_fatigable_tau(in.fatigue, in.tau_in_controls)
                        ELSE [error |-> "none", tau |-> "None"]
        called == applied \o compute_tau_from_muscle \o <<ModelCall("computeQdot")>>
        solved == IF in.rigidbody_dynamics = "DAE_INVERSE_DYNAMICS" THEN called
                  ELSE called \o forward_dynamics(in.with_contact)
        excited == IF in.has_excitation THEN solved \o compute_muscle_dot ELSE solved
        dxdt == <<Row("q_scaled", "dq"),
                  Row("qdot_scaled", IF in.rigidbody_dynamics = "DAE_INVERSE_DYNAMICS"
                                     THEN "controls.qddot_scaled" ELSE "ddq")>>
                \o (IF in.has_excitation THEN <<Row("muscles_scaled", "dmus")>> ELSE <<>>)
        fatigued == IF InFatigue(in.fatigue, "muscles_scaled")
                    THEN FatigueUniqueListDynamics(dxdt, in.fatigue.groups["muscles_scaled"], 0)
                    ELSE dxdt
    IN  IF residual_tau.error # "none" THEN Raises(applied, residual_tau.error)
        ELSE IF MusclesFatigueError(in.fatigue) # "none"
        THEN Raises(applied, MusclesFatigueError(in.fatigue))
        ELSE Returned(excited, fatigued, NoneDefects)

forces_from_muscle_driven(in) ==
    Returned(apply_parameters \o compute_tau_from_muscle \o contact_forces,
             <<Row("forces", "getForce")>>, NoneDefects)

\* joints_acceleration_driven with the parameters applied ahead of the check
\* of the rigid-body mode
joints_acceleration_driven_after_parameters(in) ==
    IF in.rigidbody_dynamics # "ODE" THEN Raises(apply_parameters, "NotImplementedError")
    ELSE Returned(Append(apply_parameters, ModelCall("ForwardDynamicsFreeFloatingBase")),
                  <<Row("q_scaled", "qdot"), Row("qdot_root", "qddot_root_func"),
                    Row("qdot_joints", "controls.qddot_joints")>>, NoneDefects)

joints_acceleration_driven(in) ==
    IF in.rigidbody_dynamics # "ODE" THEN Raises(<<>>, "NotImplementedError")
    ELSE Returned(Append(apply_parameters, ModelCall("ForwardDynamicsFreeFloatingBase")),
                  <<Row("q_scaled", "qdot"), Row("qdot_root", "qddot_root_func"),
                    Row("qdot_joints", "controls.qddot_joints")>>, NoneDefects)

\* nlp.dynamics_type.dynamic_function(states, controls, parameters, nlp): the
\* user's function calls the model; custom itself applies no parameter
custom(in) ==
    Returned((IF in.applies THEN apply_parameters ELSE <<>>) \o <<ModelCall("dynamics")>>,
             <<Row("states", "dynamic_function")>>, NoneDefects)

\* the scenarios that evaluate their dynamics on the one model instance
Scenarios == {"first", "second"}

\* no scenario has started its evaluation: position in the evaluation, and
\* whether one of its model calls found a parameter another scenario applied
NoScenario == [s \in Scenarios |-> [pos |-> 0, foreign |-> FALSE]]

\* no dynamics function has been evaluated
NoEvaluation ==
    [variant |-> "none", in |-> DefaultInputs, before |-> {}, log |-> <<>>,
     outcome |-> "none", dxdt |-> <<>>, defects |-> NoneDefects]

\* One evaluation, the one the state records: the callbacks of its log have
\* mutated the shared model, whatever the outcome.  before is the model the
\* evaluation found.
Evaluate(variant, in, result) ==
    /\ evaluation' = [variant |-> variant, in |-> in, before |-> model,
                      log |-> result.log, outcome |-> result.outcome,
                      dxdt |-> result.dxdt, defects |-> result.defects]
    /\ model' = Mutate(model, result.log)
    /\ UNCHANGED scenarios
    /\ UNCHANGED assemblerVars
    /\ UNCHANGED <<parameters_in_list, added>>

\* tau_in_controls is read only where a torque group does not split the controls
TauInControlsChoices(fatigue) ==
    IF InFatigue(fatigue, "tau_scaled")
       /\ ~fatigue.groups["tau_scaled"].options[1].split_controls
    THEN BOOLEAN ELSE {TRUE}

TorqueDriven ==
    /\ evaluation = NoEvaluation
    /\ \E wc \in BOOLEAN, rbd \in RigidBodyDynamics, f \in FatigueLists :
           \E tc \in TauInControlsChoices(f) :
               LET in == [DefaultInputs EXCEPT !.with_contact = wc,
                                               !.rigidbody_dynamics = rbd,
                                               !.fatigue = f, !.tau_in_controls = tc]
               IN  Evaluate("torque_driven", in, torque_driven(in))

TorqueActivationsDriven ==
    /\ evaluation = NoEvaluation
    /\ \E wc \in BOOLEAN :
           LET in == [DefaultInputs EXCEPT !.with_contact = wc]
           IN  Evaluate("torque_activations_driven", in, torque_activations_driven(in))

TorqueDerivativeDriven ==
    /\ evaluation = NoEvaluation
    /\ \E wc \in BOOLEAN, rbd \in RigidBodyDynamics :
           LET in == [DefaultInputs EXCEPT !.with_contact = wc, !.rigidbody_dynamics = rbd]
           IN  Evaluate("torque_derivative_driven", in, torque_derivative_driven(in))

ForcesFromTorqueDriven ==
    /\ evaluation = NoEvaluation
    /\ Evaluate("forces_from_torque_driven", DefaultInputs,
                forces_from_torque_driven(DefaultInputs))

ForcesFromTorqueActivationDriven ==
    /\ evaluation = NoEvaluation
    /\ Evaluate("forces_from_torque_activation_driven", DefaultInputs,
                forces_from_torque_activation_driven(DefaultInputs))

MusclesDriven ==
    /\ evaluation = NoEvaluation
    /\ \E wc \in BOOLEAN, rbd \in {"ODE", "DAE_INVERSE_DYNAMICS"}, f \in FatigueLists,
          wt \in BOOLEAN, ex \in BOOLEAN :
           LET in == [DefaultInputs EXCEPT !.with_contact = wc,
                                           !.rigidbody_dynamics = rbd, !.fatigue = f,
                                           !.with_torque = wt, !.has_excitation = ex]
           IN  Evaluate("muscles_driven", in, muscles_driven(in))

ForcesFromMuscleDriven ==
    /\ evaluation = NoEvaluation
    /\ Evaluate("forces_from_muscle_driven", DefaultInputs,
                forces_from_muscle_driven(DefaultInputs))

JointsAccelerationDriven ==
    /\ evaluation = NoEvaluation
    /\ \E rbd \in RigidBodyDynamics :
           LET in == [DefaultInputs EXCEPT !.rigidbody_dynamics = rbd]
           IN  Evaluate("joints_acceleration_driven", in, joints_acceleration_driven(in))

Custom ==
    /\ evaluation = NoEvaluation
    /\ \E ap \in BOOLEAN :
           LET in == [DefaultInputs EXCEPT !.applies = ap]
           IN  Evaluate("custom", in, custom(in))

\* the assembler's own fields after __init__
InitOfAssembler(program) ==
    /\ ocp = program
    /\ pc = "UNBUILT"
    /\ X = [p \in 0..(program.n_phases - 1) |-> <<>>]
    /\ X_scaled = [p \in 0..(program.n_phases - 1) |-> <<>>]
    /\ U = [p \in 0..(program.n_phases - 1) |-> <<>>]
    /\ U_scaled = [p \in 0..(program.n_phases - 1) |-> <<>>]
    /\ x_scaled = [p \in 0..(program.n_phases - 1) |-> <<>>]
    /\ u_scaled = [p \in 0..(program.n_phases - 1) |-> <<>>]
    /\ n_phase_x = [p \in 0..(program.n_phases - 1) |-> 0]
    /\ n_phase_u = [p \in 0..(program.n_phases - 1) |-> 0]
    /\ n_all_x = 0
    /\ n_all_u = 0
    /\ x_bounds = [p \in 0..(program.n_phases - 1) |-> <<>>]
    /\ u_bounds = [p \in 0..(program.n_phases - 1) |-> <<>>]
    /\ x_init = [p \in 0..(program.n_phases - 1) |-> <<>>]
    /\ u_init = [p \in 0..(program.n_phases - 1) |-> <<>>]
    /\ decoded = NotDecoded
    /\ raised = NoError

InitOf(program) ==
    /\ InitOfAssembler(program)
    /\ parameters_in_list = <<>>
    /\ added = <<>>
    /\ model = {}
    /\ evaluation = NoEvaluation
    /\ scenarios = NoScenario

Init == \E program \in Programs \cup ForwardPrograms : InitOf(program)

Next ==
    \/ define_ocp_shooting_points
    \/ define_ocp_bounds
    \/ DefineOcpInitialGuess
    \/ AddParameter
    \/ ToDictionaries

Spec == Init /\ [][Next]_vars

\* The build steps alone, and the layouts with the pool alone: what
\* vector(), the bounds blocks and the initial guess blocks depend on.
BuildNext ==
    \/ define_ocp_shooting_points
    \/ define_ocp_bounds
    \/ DefineOcpInitialGuess

BuildSpec == Init /\ [][BuildNext]_vars

VectorNext ==
    \/ define_ocp_shooting_points
    \/ AddParameter

VectorSpec == Init /\ [][VectorNext]_vars

(***************************************************************************)
(* The dynamics functions of one phase, evaluated on one shared model for  *)
(* the parameters the program declared.                                    *)
(***************************************************************************)
ParameterNames == <<"gravity", "mass", "inertia", "length">>

\* the declarations of n parameters: any sizes, with and without a callback
Declarations(n) ==
    {[i \in 1..n |-> [name |-> ParameterNames[i], size |-> sizes[i],
                      function |-> functions[i], params |-> "a"]] :
        sizes \in [1..n -> {1, 2}], functions \in [1..n -> {"None", "f"}]}

\* the pool after add_parameter was called for each declaration
Pooled(declared) ==
    [i \in 1..Len(declared) |->
        NewParameter(declared[i], SumSeq([j \in 1..(i - 1) |-> declared[j].size]))]

\* the calls that pooled them
Calls(declared) == [i \in 1..Len(declared) |-> [in |-> declared[i], error |-> "none"]]

DynamicsProgram ==
    [n_phases |-> 1, nq |-> 1, scaled |-> FALSE,
     nlp |-> (0 :> Phase(0, 0, 1, OwnIt, OwnIt, 0, "CONSTANT"))]

\* The model the evaluation finds is untouched, or is as an earlier
\* evaluation left it.
DynamicsInit ==
    /\ InitOfAssembler(DynamicsProgram)
    /\ \E n \in {0, 1, MaxParameters} :
          \E declared \in Declarations(n) :
              /\ parameters_in_list = Pooled(declared)
              /\ added = Calls(declared)
    /\ model \in {{}, Mutate({}, apply_parameters)}
    /\ evaluation = NoEvaluation
    /\ scenarios = NoScenario

DynamicsNext ==
    \/ TorqueDriven
    \/ TorqueActivationsDriven
    \/ TorqueDerivativeDriven
    \/ ForcesFromTorqueDriven
    \/ ForcesFromTorqueActivationDriven
    \/ MusclesDriven
    \/ ForcesFromMuscleDriven
    \/ JointsAccelerationDriven
    \/ Custom

DynamicsSpec == DynamicsInit /\ [][DynamicsNext]_vars

(***************************************************************************)
(* Properties.                                                             *)
(***************************************************************************)
LayoutDefined == pc # "UNBUILT"
BoundsDefined == pc \in {"BOUNDS_DEFINED", "VECTOR_READY", "DECODED"}
VectorReady == pc \in {"VECTOR_READY", "DECODED"}

\* the samples of liberty l among the entries phase p contributes
SamplesOf(contribution, l) ==
    Cardinality({i \in 1..Len(contribution) : contribution[i].liberty = l})

\* the liberties of which phase p has entries of its own in vector()
OwnStates(p) ==
    IF ocp.nlp[p].states_phase_mapping_idx.phase = p
    THEN 0..(StatesShape(ocp) - 1)
    ELSE (0..(StatesShape(ocp) - 1)) \ IndexX(p)
OwnControls(p) ==
    IF ocp.nlp[p].controls_phase_mapping_idx.phase = p
    THEN 0..(ControlsShape(ocp) - 1)
    ELSE (0..(ControlsShape(ocp) - 1)) \ IndexU(p)

\* C1: after define_ocp_shooting_points, n_phase_x[p] and n_phase_u[p] are
\* the numbers of state and control entries phase p contributes to
\* vector(), so that the control block of vector() starts at n_all_x and
\* the parameter block at n_all_x + n_all_u.
C1_CountsAreContributions ==
    LayoutDefined =>
        /\ \A p \in Phases : /\ n_phase_x[p] = Len(VectorX(p))
                             /\ n_phase_u[p] = Len(VectorU(p))
        /\ n_all_x = Len(VectorXAll)
        /\ n_all_x + n_all_u = Len(VectorXAll) + Len(VectorUAll)

\* the example program: one phase, 3 shooting intervals, 2 positions and 2
\* velocities, 2 CONSTANT torques, no collocation
IsExample ==
    /\ ocp.n_phases = 1
    /\ ocp.nq = 2
    /\ ocp.nlp[0].ns = 3
    /\ ocp.nlp[0].degree = 0
    /\ ocp.nlp[0].control_type = "CONSTANT"

\* C2: for the example program vector() is 16 state entries, then 6 control
\* entries, then the pooled parameters: 22 entries plus the pool's size.
ExampleLayout(vec) ==
    /\ Len(vec) = 22 + ParametersSize
    /\ \A i \in 1..Len(vec) :
          vec[i].kind = IF i <= 16 THEN "X" ELSE IF i <= 22 THEN "U" ELSE "P"

C2_ExampleVector == (LayoutDefined /\ IsExample) => ExampleLayout(vector)

C2_Witness == LayoutDefined /\ IsExample /\ ParametersSize > 0

\* what to_dictionaries has to return for the states and the controls of
\* phase p: the assigned value of every sample of every liberty
AssignedMatrix(m) ==
    [c \in 1..Len(m) |-> [l \in 1..Len(m[c]) |-> Assigned(m[c][l])]]

AssignedParameter(i) ==
    [j \in 1..Len(parameters_in_list[i].cx) |-> Assigned(parameters_in_list[i].cx[j])]

\* C3: round trip.  Decoding the layout of a physical assignment returns
\* the assigned value of every state and control sample of every phase
\* that has states or controls of its own, and of every parameter, with
\* and without scaling.
C3_RoundTrip ==
    (pc = "DECODED" /\ decoded.data = AssignedVector) =>
        /\ decoded.status = "returned"
        /\ \A p \in Phases :
              /\ OwnsStates(p) =>
                    decoded.states[p + 1].all = AssignedMatrix(x_scaled[p])
              /\ OwnsControls(p) =>
                    decoded.controls[p + 1].all = AssignedMatrix(u_scaled[p])
        /\ \A i \in 1..Len(parameters_in_list) :
              decoded.parameters.byName[i].value = AssignedParameter(i)

\* C4: once the layout, the bounds and the initial guess are defined,
\* vector(), bounds() and init() have the same length.
C4_SameLength ==
    VectorReady =>
        /\ ~ScalingRaises(x_bounds, u_bounds)
        /\ ~ScalingRaises(x_init, u_init)
        /\ Len(bounds) = Len(vector)
        /\ Len(init) = Len(vector)

\* the number of control samples of a phase of N shooting intervals
ExpectedControlSamples(p) ==
    IF ocp.nlp[p].control_type = "CONSTANT" THEN ocp.nlp[p].ns
    ELSE IF ocp.nlp[p].control_type = "LINEAR_CONTINUOUS" THEN ocp.nlp[p].ns + 1
    ELSE 0

\* C5: a CONSTANT phase of N intervals has N samples of every control
\* channel, none of them at the final node, and a LINEAR_CONTINUOUS phase
\* has N + 1, in the control block of vector() and in the control bounds
\* and initial guess blocks define_ocp_bounds and define_ocp_initial_guess
\* build.
ControlSamplesIn(p, contribution) ==
    /\ \A l \in OwnControls(p) :
          SamplesOf(contribution, l) = ExpectedControlSamples(p)
    /\ ocp.nlp[p].control_type = "CONSTANT" =>
          \A i \in 1..Len(contribution) : contribution[i].e.node # ocp.nlp[p].ns

C6_CollocationSamples ==
    LayoutDefined =>
        \A p \in Phases :
            is_direct_collocation(ocp.nlp[p]) =>
                \A l \in OwnStates(p) :
                    SamplesOf(VectorX(p), l)
                        = ocp.nlp[p].ns * (ocp.nlp[p].degree + 1) + 1

\* C7: a phase that reuses all states (controls) of another phase has no
\* state (control) entry in vector(), a phase that reuses an index list has
\* at each sample the entries that are not in the list, and n_phase_x /
\* n_phase_u of such a phase is that contribution and is not negative.
C7_SharedContribution ==
    LayoutDefined =>
        \A p \in Phases :
            /\ ocp.nlp[p].states_phase_mapping_idx.phase # p =>
                  /\ ocp.nlp[p].states_phase_mapping_idx.index = NoneIndex =>
                        Len(VectorX(p)) = 0
                  /\ \A l \in 0..(StatesShape(ocp) - 1) :
                        SamplesOf(VectorX(p), l) =
                            IF l \in IndexX(p) THEN 0 ELSE ocp.nlp[p].ns + 1
                  /\ n_phase_x[p] = Len(VectorX(p))
                  /\ n_phase_x[p] >= 0
            /\ ocp.nlp[p].controls_phase_mapping_idx.phase # p =>
                  /\ ocp.nlp[p].controls_phase_mapping_idx.index = NoneIndex =>
                        Len(VectorU(p)) = 0
                  /\ \A l \in 0..(ControlsShape(ocp) - 1) :
                        SamplesOf(VectorU(p), l) =
                            IF l \in IndexU(p) THEN 0 ELSE ExpectedControlSamples(p)
                  /\ n_phase_u[p] = Len(VectorU(p))
                  /\ n_phase_u[p] >= 0

\* every symbol of the node lists of every phase
SymbolsOfNode(node) ==
    UNION {{node[l][c] : c \in 1..Len(node[l])} : l \in 1..Len(node)}
SymbolsOf(nodes) ==
    UNION {UNION {SymbolsOfNode(nodes[p][k]) : k \in 1..Len(nodes[p])} : p \in Phases}

OnceEach(vec, symbols) ==
    \A s \in symbols : Cardinality({i \in 1..Len(vec) : vec[i] = s}) = 1

\* C8: a shared entry of a phase is the scaled symbol and the physical
\* expression of the owning phase at the same node and index, and every
\* decision symbol created is exactly once in vector().
C8_AliasedOnce ==
    LayoutDefined =>
        /\ \A p \in Phases :
              LET o == ocp.nlp[p].states_phase_mapping_idx.phase IN
              o # p =>
                  \A k \in 1..Len(X_scaled[p]), l \in 1..StatesShape(ocp) :
                      (l - 1) \in IndexX(p) =>
                          /\ X_scaled[p][k][l] = X_scaled[o][k][l]
                          /\ X[p][k][l] = X[o][k][l]
        /\ \A p \in Phases :
              LET o == ocp.nlp[p].controls_phase_mapping_idx.phase IN
              o # p =>
                  \A k \in 1..Len(U_scaled[p]), l \in 1..ControlsShape(ocp) :
                      (HasControlAt(p, k - 1) /\ (l - 1) \in IndexU(p)) =>
                          /\ U_scaled[p][k][l] = U_scaled[o][k][l]
                          /\ U[p][k][l] = U[o][k][l]
        /\ OnceEach(vector, SymbolsOf(X_scaled) \cup SymbolsOf(U_scaled))

\* the bound and the initial guess of a decision symbol: its phase's series
\* at its node, divided by its scale factor
ParameterOf(s) ==
    CHOOSE r \in {[i |-> i, j |-> j] : i \in 1..Len(parameters_in_list),
                                        j \in 1..MaxParamSize + 1} :
        /\ r.j <= Len(parameters_in_list[r.i].cx)
        /\ parameters_in_list[r.i].cx[r.j] = s

ExpectedBound(s) ==
    LET b == IF s.kind = "X"
             THEN XBoundsEvaluateAt(ocp.nlp[s.phase].ns, s.node)[s.liberty + 1]
             ELSE IF s.kind = "U" THEN UBoundsEvaluateAt(s.node)[s.liberty + 1]
             ELSE parameters_in_list[ParameterOf(s).i].bounds[ParameterOf(s).j]
    IN  [min |-> b.min \div ScaleOf(s), max |-> b.max \div ScaleOf(s)]

ExpectedInit(s) ==
    (IF s.kind = "X" THEN XInitEvaluateAt(s.node)[s.liberty + 1]
     ELSE IF s.kind = "U" THEN UInitEvaluateAt(s.node)[s.liberty + 1]
     ELSE parameters_in_list[ParameterOf(s).i].initial_guess[ParameterOf(s).j])
    \div ScaleOf(s)

SameOrder(vec, b, g) ==
    \A i \in 1..Len(vec) :
        /\ i <= Len(b) /\ b[i] = ExpectedBound(vec[i])
        /\ i <= Len(g) /\ g[i] = ExpectedInit(vec[i])

\* C9: entry i of bounds() and of init() is the bound and the initial guess
\* of the decision variable at index i of vector().
C9_SameOrder ==
    VectorReady =>
        /\ ~ScalingRaises(x_bounds, u_bounds)
        /\ ~ScalingRaises(x_init, u_init)
        /\ SameOrder(vector, bounds, init)

\* C10: when the bounds of a state are equal at the first node (at the
\* terminal node), every decoded flat solution within bounds() has that
\* value in the first (last) column of the state's decoded array.
C10_PinnedColumns ==
    (pc = "DECODED" /\ SolverCanRun /\ decoded.data \in {LowerSolution, UpperSolution}) =>
        /\ decoded.status = "returned"
        /\ \A p \in Phases :
              OwnsStates(p) =>
                  LET m == decoded.states[p + 1].all IN
                  /\ Len(m) > 0
                  /\ \A l \in 1..StatesShape(ocp) :
                        /\ m[1][l] = XPinFirst(l - 1) \div XScaling(ocp, l - 1)
                        /\ m[Len(m)][l] = XPinLast(l - 1) \div XScaling(ocp, l - 1)

(***************************************************************************)
(* The dynamics functions: what an evaluation did before it returned or    *)
(* raised.                                                                 *)
(***************************************************************************)
\* the group mixes members with state_only True and members with state_only False
MixedStateOnly(group) ==
    0 < NStateOnly(group) /\ NStateOnly(group) < Len(group.options)

\* a torque driven or muscle driven evaluation whose actuators' group is mixed
EvaluatedMixedGroup ==
    \/ /\ evaluation.variant = "torque_driven"
       /\ InFatigue(evaluation.in.fatigue, "tau_scaled")
       /\ MixedStateOnly(evaluation.in.fatigue.groups["tau_scaled"])
    \/ /\ evaluation.variant = "muscles_driven"
       /\ InFatigue(evaluation.in.fatigue, "muscles_scaled")
       /\ MixedStateOnly(evaluation.in.fatigue.groups["muscles_scaled"])

\* C11: a torque driven or muscle driven evaluation with a fatigue group of
\* mixed state_only raises before any parameter callback has mutated the
\* model and before any model call.
C11_MixedGroupRaisesFirst ==
    EvaluatedMixedGroup =>
        /\ evaluation.outcome # "returned"
        /\ evaluation.log = <<>>
        /\ model = evaluation.before

\* some declared parameter has a callback
SomeCallback == \E i \in 1..Len(parameters_in_list) : parameters_in_list[i].function # "None"

\* C12: joints_acceleration_driven raises NotImplementedError for every
\* rigid-body mode other than ODE, before it applies a parameter or calls the
\* model: the shared model is as the call found it.
C12_JointsAccelerationOdeOnly ==
    (evaluation.variant = "joints_acceleration_driven"
        /\ evaluation.in.rigidbody_dynamics # "ODE") =>
        /\ evaluation.outcome = "NotImplementedError"
        /\ evaluation.log = <<>>
        /\ model = evaluation.before

\* an implicit mode was refused while a parameter with a callback is declared
C12_Witness ==
    /\ evaluation.variant = "joints_acceleration_driven"
    /\ evaluation.in.rigidbody_dynamics = "DAE_INVERSE_DYNAMICS"
    /\ evaluation.outcome = "NotImplementedError"
    /\ SomeCallback

\* torque_driven was evaluated
TorqueDrivenEvaluated == evaluation.variant = "torque_driven"

\* the flags of the torque fatigue group are of a kind __get_fatigable_tau refuses
RefusedTorqueFlags(fatigue) ==
    /\ InFatigue(fatigue, "tau_scaled")
    /\ \/ MixedStateOnly(fatigue.groups["tau_scaled"])
       \/ NApplyToJointDynamics(fatigue.groups["tau_scaled"]) # 0

\* C13: torque_driven evaluated with contact or with a fatigue list, in any
\* rigid-body mode, returns defects None; it raises for the flags of the
\* fatigue group only, never for the combination.
C13_DefectsSkipped ==
    (TorqueDrivenEvaluated
        /\ (evaluation.in.with_contact \/ ~evaluation.in.fatigue.is_none)) =>
        /\ evaluation.outcome = "returned" => evaluation.defects = NoneDefects
        /\ evaluation.outcome # "returned" => RefusedTorqueFlags(evaluation.in.fatigue)

\* an implicit mode without contact returned no defects for a torque fatigue group
C13_Witness ==
    /\ TorqueDrivenEvaluated
    /\ evaluation.in.rigidbody_dynamics = "DAE_INVERSE_DYNAMICS"
    /\ ~evaluation.in.with_contact
    /\ InFatigue(evaluation.in.fatigue, "tau_scaled")
    /\ evaluation.outcome = "returned"
    /\ evaluation.defects = NoneDefects

\* C14: torque_driven returns defects exactly when the rigid-body mode is a
\* DAE mode and neither contact nor fatigue is used; in ODE mode it returns
\* none.
C14_DefectsExactlyWhenImplicit ==
    (TorqueDrivenEvaluated /\ evaluation.outcome = "returned") =>
        (~evaluation.defects.is_none <=>
            /\ evaluation.in.rigidbody_dynamics # "ODE"
            /\ ~evaluation.in.with_contact
            /\ evaluation.in.fatigue.is_none)

\* forward dynamics was called during the evaluation
ForwardDynamicsCalled ==
    \E i \in 1..Len(evaluation.log) :
        /\ evaluation.log[i].ev = "model"
        /\ evaluation.log[i].name \in {"ForwardDynamics", "ForwardDynamicsConstraintsDirect"}

\* the rows of name in the returned dxdt are assigned the expression from
AssignedFrom(name, from) ==
    \E i \in 1..Len(evaluation.dxdt) :
        evaluation.dxdt[i].row = name /\ evaluation.dxdt[i].from = from

\* C15: torque_driven in a DAE mode never calls forward dynamics: the
\* velocity derivative is the declared acceleration and, in the jerk modes,
\* the acceleration derivative is the declared jerk; in ODE mode forward
\* dynamics is called.
C15_NoForwardDynamicsWhenImplicit ==
    TorqueDrivenEvaluated =>
        /\ evaluation.in.rigidbody_dynamics # "ODE" => ~ForwardDynamicsCalled
        /\ (evaluation.outcome = "returned"
                /\ evaluation.in.rigidbody_dynamics
                        \in {"DAE_INVERSE_DYNAMICS", "DAE_FORWARD_DYNAMICS"}) =>
               AssignedFrom("qdot_scaled", "controls.qddot_scaled")
        /\ (evaluation.outcome = "returned"
                /\ evaluation.in.rigidbody_dynamics
                        \in {"DAE_INVERSE_DYNAMICS_JERK", "DAE_FORWARD_DYNAMICS_JERK"}) =>
               /\ AssignedFrom("qdot_scaled", "states.qddot_scaled")
               /\ AssignedFrom("qddot_scaled", "controls.qdddot_scaled")
        /\ (evaluation.outcome = "returned"
                /\ evaluation.in.rigidbody_dynamics = "ODE") => ForwardDynamicsCalled

\* a jerk mode returned
C15_Witness ==
    /\ TorqueDrivenEvaluated
    /\ evaluation.in.rigidbody_dynamics = "DAE_FORWARD_DYNAMICS_JERK"
    /\ evaluation.outcome = "returned"
    /\ Len(evaluation.dxdt) >= 3

\* the callbacks of a log, in the order they were called
CallbacksOf(log) == SelectSeq(log, LAMBDA e : e.ev = "callback")

\* where the parameters start in the vector to_dictionaries decodes
ParametersStart == n_all_x + n_all_u

\* the calls owed to the parameters from i on: one per parameter with a
\* callback, in declaration order, on the slice to_dictionaries decodes for it
RECURSIVE ExpectedCallbacks(_)
ExpectedCallbacks(i) ==
    IF i > Len(parameters_in_list) THEN <<>>
    ELSE LET param == parameters_in_list[i]
             o == ParameterOffset(i) - ParametersStart
         IN  (IF param.function # "None"
              THEN <<Callback(param, o, o + param.size)>> ELSE <<>>)
             \o ExpectedCallbacks(i + 1)

\* the evaluation went through apply_parameters
ParametersApplied ==
    /\ evaluation.variant \notin {"none", "custom"}
    /\ evaluation.outcome = "returned"

\* C16: apply_parameters calls the callback of each parameter that has one,
\* once and in declaration order, on the slice [o, o + size) where o is the
\* sum of the sizes of all parameters declared before it, the slice
\* to_dictionaries decodes for it; a parameter without a callback is not called.
C16_CallbackSlices ==
    ParametersApplied => CallbacksOf(evaluation.log) = ExpectedCallbacks(1)

\* some call of the log is a model call
SomeModelCall(log) == \E i \in 1..Len(log) : log[i].ev = "model"

\* what the log holds ahead of its first model call
BeforeFirstModelCall(log) ==
    LET first == CHOOSE i \in 1..Len(log) :
                    log[i].ev = "model" /\ \A j \in 1..(i - 1) : log[j].ev # "model"
    IN  SubSeq(log, 1, first - 1)

\* C17: in every dynamics variant, custom and the contact-force functions
\* included, apply_parameters has completed before the first model call of
\* the evaluation.
C17_ParametersBeforeModel ==
    (evaluation.variant # "none" /\ SomeModelCall(evaluation.log)) =>
        BeforeFirstModelCall(evaluation.log) = apply_parameters

\* the evaluation returned a dxdt that went through the fatigue group of its actuators
FatigueAugmented ==
    /\ evaluation.outcome = "returned"
    /\ \/ /\ evaluation.variant = "torque_driven"
          /\ InFatigue(evaluation.in.fatigue, "tau_scaled")
       \/ /\ evaluation.variant = "muscles_driven"
          /\ InFatigue(evaluation.in.fatigue, "muscles_scaled")

AugmentingGroup ==
    IF evaluation.variant = "torque_driven"
    THEN evaluation.in.fatigue.groups["tau_scaled"]
    ELSE evaluation.in.fatigue.groups["muscles_scaled"]

\* the state derivatives of the same evaluation with no fatigue group
OriginalRows ==
    LET plain == [evaluation.in EXCEPT !.fatigue = EmptyFatigue] IN
    IF evaluation.variant = "torque_driven"
    THEN torque_driven(plain).dxdt ELSE muscles_driven(plain).dxdt

\* rows is original followed by one fatigue row per (actuator, suffix), the
\* actuators in index order and, within an actuator, the suffixes in
\* declaration order, each law having received all the rows above its own
AugmentedInOrder(rows, original, group) ==
    LET S == Len(group.suffix)
        base == Len(original)
    IN  /\ Len(rows) = base + Len(group.options) * S
        /\ SubSeq(rows, 1, base) = original
        /\ \A k \in 1..(Len(group.options) * S) :
              rows[base + k] = [row |-> "fatigue",
                                from |-> group.suffix[((k - 1) % S) + 1],
                                index |-> (k - 1) \div S,
                                received |-> base + k - 1]

LayoutUntouched(p) ==
    /\ X[p] = <<>> /\ X_scaled[p] = <<>>
    /\ U[p] = <<>> /\ U_scaled[p] = <<>>
    /\ x_scaled[p] = <<>> /\ u_scaled[p] = <<>>
    /\ n_phase_x[p] = 0 /\ n_phase_u[p] = 0

\* C19: when define_ocp_shooting_points raises NotImplementedError for the
\* control type of a phase, no partial layout is produced: X, X_scaled, U,
\* U_scaled, x_scaled, u_scaled, n_phase_x and n_phase_u of every phase, the
\* phases ahead of the failing one included, and n_all_x and n_all_u are
\* unchanged.
C19_NoPartialLayout ==
    raised = [by |-> "define_ocp_shooting_points", error |-> "NotImplementedError"] =>
        /\ \A p \in Phases : LayoutUntouched(p)
        /\ n_all_x = 0
        /\ n_all_u = 0

\* C20: define_ocp_initial_guess raises whenever a phase that uses direct
\* shooting has a state initial guess of type ALL_POINTS, and when it raises
\* x_init and u_init are, for every phase, what they were before the call.
C20_AllPointsRaisesUnchanged ==
    [][\A types \in [Phases -> InterpolationTypes] :
          define_ocp_initial_guess(types) =>
              /\ (\E p \in Phases : /\ ocp.nlp[p].degree = 0
                                    /\ types[p] = "ALL_POINTS") =>
                     raised'.error # "none"
              /\ raised'.error # "none" =>
                     \A p \in Phases : x_init'[p] = x_init[p] /\ u_init'[p] = u_init[p]]_vars

\* the call raised for a program of several phases
C20_Witness ==
    /\ raised = [by |-> "define_ocp_initial_guess", error |-> "ValueError"]
    /\ pc = "BOUNDS_DEFINED"
    /\ ocp.n_phases > 1

(***************************************************************************)
(* The program changes under a built assembler.  The assembler holds a     *)
(* reference to the ocp (self.ocp = ocp) and has no method that observes   *)
(* the ocp changing: a change assigns nothing in the assembler.            *)
(***************************************************************************)
\* the other control type the assembler accepts
OtherControlType(ct) == IF ct = "CONSTANT" THEN "LINEAR_CONTINUOUS" ELSE "CONSTANT"

\* the programs one change away from o: a phase fewer or a phase more, other
\* slot sizes, another control parameterization of phase 0
Changes(o) ==
    LET last == o.n_phases - 1 IN
    {IF o.n_phases > 1
     THEN [o EXCEPT !.n_phases = last, !.nlp = [p \in 0..(last - 1) |-> o.nlp[p]]]
     ELSE [o EXCEPT !.n_phases = 2,
                    !.nlp = o.nlp @@ (1 :> [o.nlp[0] EXCEPT
                        !.phase_idx = 1,
                        !.states_phase_mapping_idx.phase = 1,
                        !.controls_phase_mapping_idx.phase = 1,
                        !.use_states_from_phase_idx = 1,
                        !.use_controls_from_phase_idx = 1])],
     [o EXCEPT !.nq = IF o.nq = 1 THEN MaxNq ELSE 1],
     [o EXCEPT !.nlp[0].control_type = OtherControlType(o.nlp[0].control_type)]}

ChangeProgram ==
    /\ pc = "VECTOR_READY"
    /\ \E changed \in Changes(ocp) : ocp' = changed
    /\ UNCHANGED <<pc, x_bounds, u_bounds, x_init, u_init, parameters_in_list,
                   added, decoded, raised>>
    /\ UNCHANGED layoutVars
    /\ UNCHANGED dynamicsVars

LifecycleNext ==
    \/ define_ocp_shooting_points
    \/ define_ocp_bounds
    \/ DefineOcpInitialGuess
    \/ ChangeProgram

LifecycleSpec == Init /\ [][LifecycleNext]_vars

\* C21: after VECTOR_READY a change of the number of phases, of a phase's
\* slots or of a phase's control parameterization returns the assembler to
\* UNBUILT, so that nothing answers from the layout computed before the
\* change until the three build steps have run again.
C21_ChangeInvalidates ==
    [][(pc = "VECTOR_READY" /\ ocp' # ocp) => pc' = "UNBUILT"]_vars

(***************************************************************************)
(* Two scenarios evaluate torque_driven on one model instance.  Neither    *)
(* apply_parameters nor torque_driven takes a lock: each callback and each *)
(* model call of an evaluation is a step of its own.                       *)
(***************************************************************************)
\* the callbacks and the model calls of one torque_driven evaluation, in order
ScenarioCalls == torque_driven(DefaultInputs).log

\* param.function(nlp.model, ...) of scenario s: the parameter of the model
\* now has the value of s
ApplyParameterOf(s) ==
    /\ scenarios[s].pos < Len(ScenarioCalls)
    /\ LET call == ScenarioCalls[scenarios[s].pos + 1] IN
       /\ call.ev = "callback"
       /\ model' = {r \in model : r.name # call.name}
                      \cup {[name |-> call.name, lo |-> call.lo, hi |-> call.hi, by |-> s]}
       /\ scenarios' = [scenarios EXCEPT ![s].pos = @ + 1]
    /\ UNCHANGED <<evaluation, parameters_in_list, added>>
    /\ UNCHANGED assemblerVars

\* nlp.model.<call>(...) of scenario s, on the model as it is now
CallModelOf(s) ==
    /\ scenarios[s].pos < Len(ScenarioCalls)
    /\ LET call == ScenarioCalls[scenarios[s].pos + 1] IN
       /\ call.ev = "model"
       /\ scenarios' = [scenarios EXCEPT
                           ![s].pos = @ + 1,
                           ![s].foreign = @ \/ \E r \in model : r.by # s]
    /\ UNCHANGED <<model, evaluation, parameters_in_list, added>>
    /\ UNCHANGED assemblerVars

ApplyParameter == \E s \in Scenarios : ApplyParameterOf(s)
CallModel == \E s \in Scenarios : CallModelOf(s)

ConcurrentInit ==
    /\ InitOfAssembler(DynamicsProgram)
    /\ \E n \in {0, 1, MaxParameters} :
          \E declared \in Declarations(n) :
              /\ parameters_in_list = Pooled(declared)
              /\ added = Calls(declared)
    /\ model = {}
    /\ evaluation = NoEvaluation
    /\ scenarios = NoScenario

ConcurrentNext == ApplyParameter \/ CallModel

ConcurrentSpec == ConcurrentInit /\ [][ConcurrentNext]_vars

SharedFromOwner(p) ==
    LET nlp == ocp.nlp[p]
        o == nlp.states_phase_mapping_idx.phase
    IN  o # p =>
            \A k \in 1..(nlp.ns + 1), l \in 1..StatesShape(ocp) :
                (nlp.states_phase_mapping_idx.index = NoneIndex
                    \/ (l - 1) \in nlp.states_phase_mapping_idx.index) =>
                    /\ X_scaled[o] # <<>>
                    /\ X_scaled[p][k][l] = X_scaled[o][k][l]

\* C23: define_ocp_shooting_points resolves the shared slots of a phase after
\* the layout of the phase it shares from is built, whether that phase has a
\* lower or a higher index, and never reads a layout that does not exist yet.
C23_SharedAfterOwner ==
    /\ raised.by = "define_ocp_shooting_points" => raised.error # "IndexError"
    /\ pc = "LAYOUTS_DEFINED" => \A p \in Phases : SharedFromOwner(p)

(***************************************************************************)
(* The parameter pool of a two-phase program whose phase durations may be  *)
(* optimized, and extract_phase_time.                                      *)
(***************************************************************************)
MaxCalls == 3

\* a phase duration: a number, or a symbol of the program
Duration(value) == [symbolic |-> FALSE, value |-> value]
SymbolicDuration == [symbolic |-> TRUE, value |-> 0]

\* ocp.parameter_mappings["time"].to_second.map_idx for k optimized durations
TimeMappings(k) ==
    IF k = 0 THEN {<<>>}
    ELSE IF k = 1 THEN {<<0>>}
    ELSE {<<0, 1>>, <<0, 0>>, <<1, 0>>}

PoolProgram(symbolic, map_idx) ==
    [n_phases |-> 2, nq |-> 1, scaled |-> FALSE,
     nlp |-> (0 :> Phase(0, 0, 1, OwnIt, OwnIt, 0, "CONSTANT")
              @@ 1 :> Phase(1, 1, 1, OwnIt, OwnIt, 0, "CONSTANT")),
     tf |-> [p \in 0..1 |-> IF p \in symbolic THEN SymbolicDuration ELSE Duration(p + 1)],
     parameter_mappings_time |-> map_idx]

PoolPrograms ==
    {PoolProgram(symbolic, map_idx) :
        symbolic \in SUBSET (0..1), map_idx \in TimeMappings(2)} \ 
    {PoolProgram(symbolic, map_idx) :
        symbolic \in {s \in SUBSET (0..1) : Cardinality(s) < 2},
        map_idx \in {<<0, 0>>, <<1, 0>>}}

\* the parameters a program hands to add_parameter
PoolInputs ==
    {[name |-> "time", size |-> 1, function |-> function, params |-> params] :
        function \in {"f", "g"}, params \in {"a", "b"}}
    \cup {[name |-> "time", size |-> 2, function |-> "f", params |-> "a"],
          [name |-> "gravity", size |-> 1, function |-> "f", params |-> "a"]}

AddPoolParameter ==
    /\ pc # "DECODED"
    /\ Len(added) < MaxCalls
    /\ \E in \in PoolInputs : add_parameter(in)

\* phase_time[i] of the loop of extract_phase_time, from position i on, cmp
\* symbolic durations having been replaced
RECURSIVE ReplaceOptimized(_, _, _, _)
ReplaceOptimized(phase_time, data_time_optimized, i, cmp) ==
    IF i > Len(phase_time) THEN <<>>
    ELSE IF phase_time[i].symbolic
         THEN <<Duration(data_time_optimized[ocp.parameter_mappings_time[cmp + 1] + 1])>>
              \o ReplaceOptimized(phase_time, data_time_optimized, i + 1, cmp + 1)
         ELSE <<phase_time[i]>>
              \o ReplaceOptimized(phase_time, data_time_optimized, i + 1, cmp)

PoolNames == {parameters_in_list[i].name : i \in 1..Len(parameters_in_list)}

\* data[offset : offset + param.size] of the first parameter named time
DataTimeOptimized(data) ==
    IF "time" \in PoolNames
    THEN LET i == ParameterIndex("time")
         IN  PySlice(data, ParameterOffset(i), ParameterOffset(i) + parameters_in_list[i].size)
    ELSE <<>>

PhaseTime == <<Duration(0)>> \o PhaseList(ocp.tf, ocp.n_phases)

\* the positions of the optimized values the loop reads
ReadsOfTime ==
    {ocp.parameter_mappings_time[cmp] + 1 :
        cmp \in 1..Cardinality({p \in Phases : ocp.tf[p].symbolic})}

extract_phase_time(data) ==
    LET data_time_optimized == DataTimeOptimized(data)
    IN  IF data_time_optimized = <<>>
        THEN [NotDecoded EXCEPT !.status = "phase_time", !.data = data,
                                !.phase_time = PhaseTime]
        ELSE IF \E r \in ReadsOfTime : r > Len(data_time_optimized)
             THEN [NotDecoded EXCEPT !.status = "IndexError", !.data = data]
             ELSE [NotDecoded EXCEPT !.status = "phase_time", !.data = data,
                                     !.phase_time =
                                         ReplaceOptimized(PhaseTime, data_time_optimized, 1, 0)]

ExtractPhaseTime ==
    /\ pc = "VECTOR_READY"
    /\ \E data \in Solutions :
          /\ decoded' = extract_phase_time(data)
          /\ raised' = IF decoded'.status = "IndexError"
                       THEN [by |-> "extract_phase_time", error |-> "IndexError"]
                       ELSE NoError
    /\ pc' = "DECODED"
    /\ UNCHANGED <<ocp, x_bounds, u_bounds, x_init, u_init, parameters_in_list, added>>
    /\ UNCHANGED layoutVars
    /\ UNCHANGED dynamicsVars

PoolInit == \E program \in PoolPrograms : InitOf(program)

PoolNext ==
    \/ define_ocp_shooting_points
    \/ define_ocp_bounds
    \/ DefineOcpInitialGuess
    \/ AddPoolParameter
    \/ ExtractPhaseTime

PoolSpec == PoolInit /\ [][PoolNext]_vars

\* the values the solver gave to the symbols of the pooled time parameter
OptimizedTime == AssignedParameter(ParameterIndex("time"))

\* each duration extract_phase_time should return for the decoded solution
ExpectedPhaseTime ==
    IF "time" \in PoolNames
    THEN ReplaceOptimized(PhaseTime, OptimizedTime, 1, 0)
    ELSE PhaseTime

\* the pooled time parameter holds a value for every optimized duration
TimeDeclared ==
    /\ "time" \in PoolNames
    /\ \A r \in ReadsOfTime : r <= parameters_in_list[ParameterIndex("time")].size

\* C24: extract_phase_time returns 0 and then one duration per phase, the
\* numeric ones as declared and the symbolic ones replaced by the values the
\* solution holds where vector() placed the symbols of the time parameter.
C24_ExtractPhaseTime ==
    (/\ decoded.status \in {"phase_time", "IndexError"}
     /\ decoded.data = AssignedVector
     /\ "time" \in PoolNames => TimeDeclared)
        => /\ decoded.status = "phase_time"
           /\ decoded.phase_time = ExpectedPhaseTime

\* C29: a call of add_parameter that raises RuntimeError leaves the pool as
\* it was: no pooled parameter changes its size, symbols, scaling, bounds or
\* initial guess.
C29_RaisingCallLeavesPool ==
    [][(Len(added') = Len(added) + 1 /\ added'[Len(added')].error = "RuntimeError")
            => parameters_in_list' = parameters_in_list]_vars

\* the pool after the calls, had each merged or appended its whole parameter
RECURSIVE PoolOf(_)
PoolOf(calls) ==
    IF calls = <<>> THEN <<>>
    ELSE LET before == PoolOf(SubSeq(calls, 1, Len(calls) - 1))
             in == calls[Len(calls)].in
             idx == {i \in 1..Len(before) : before[i].name = in.name}
         IN  IF idx = {} THEN Append(before, [name |-> in.name, size |-> in.size])
             ELSE [i \in 1..Len(before) |->
                      IF i \in idx THEN [before[i] EXCEPT !.size = @ + in.size]
                      ELSE before[i]]

AllSucceeded == \A i \in 1..Len(added) : added[i].error = "none"

\* C30: after successful calls only, the pool holds one parameter per name
\* in the order of first addition, each of the summed size of its additions,
\* which is the length of its symbols, scaling, bounds and initial guess;
\* the parameter block of vector() is as long as the pooled sizes together.
C30_PoolOfSuccessfulCalls ==
    AllSucceeded =>
        /\ [i \in 1..Len(parameters_in_list) |->
               [name |-> parameters_in_list[i].name, size |-> parameters_in_list[i].size]]
           = PoolOf(added)
        /\ \A i \in 1..Len(parameters_in_list) :
              LET param == parameters_in_list[i]
              IN  /\ Len(param.cx) = param.size
                  /\ Len(param.scaling) = param.size
                  /\ Len(param.bounds) = param.size
                  /\ Len(param.initial_guess) = param.size
        /\ pc # "UNBUILT" =>
              Len(vector) - Len(VectorXAll) - Len(VectorUAll) = ParametersSize

\* successful calls pooled two names and merged a second addition of one
C30_Witness ==
    /\ AllSucceeded
    /\ Len(added) = 3
    /\ Len(parameters_in_list) = 2
    /\ \E i \in 1..2 : parameters_in_list[i].size = 3
    /\ pc = "VECTOR_READY"

(***************************************************************************)
(* forward_dynamics of a phase that declares external-force sets           *)
(***************************************************************************)
\* the model call of forward_dynamics for the set f_ext (lo names the set)
ForceCall(with_contact, f_ext) ==
    [ModelCall(IF with_contact THEN "ForwardDynamicsConstraintsDirect"
               ELSE "ForwardDynamics") EXCEPT !.lo = f_ext]

\* one column of dxdt: the mapped qddot of the call for the set, or the
\* structural zeros MX(rows, ns) starts with
ForceColumn(f_ext) == [Row("qddot", "forward_dynamics") EXCEPT !.index = f_ext]
ZeroColumn == Row("qddot", "zero")

\* dxdt = MX(rows, nlp.ns); for i, f_ext in enumerate(nlp.external_forces):
\* dxdt[:, i] = ...: the columns, and the calls made.  The assignment of a
\* column the matrix does not have raises, after the call of its iteration.
forward_dynamics_external(n_sets, ns, with_contact) ==
    IF n_sets = 0
    THEN Returned(forward_dynamics(with_contact),
                  <<Row("qddot", "forward_dynamics")>>, NoneDefects)
    ELSE IF n_sets > ns
         THEN Raises([i \in 1..(ns + 1) |-> ForceCall(with_contact, i)], "RuntimeError")
         ELSE Returned([i \in 1..n_sets |-> ForceCall(with_contact, i)],
                       [c \in 1..ns |-> IF c <= n_sets THEN ForceColumn(c) ELSE ZeroColumn],
                       NoneDefects)

ExternalForceSets == 0..(MaxNs + 1)

ForwardDynamics ==
    /\ evaluation = NoEvaluation
    /\ \E n_sets \in ExternalForceSets, wc \in BOOLEAN :
          LET in == [DefaultInputs EXCEPT !.with_contact = wc, !.external_forces = n_sets]
          IN  Evaluate("forward_dynamics", in,
                       forward_dynamics_external(n_sets, ocp.nlp[0].ns, wc))

ForcesInit ==
    /\ \E program \in {q \in Programs : q.n_phases = 1} : InitOfAssembler(program)
    /\ parameters_in_list = <<>>
    /\ added = <<>>
    /\ model = {}
    /\ evaluation = NoEvaluation
    /\ scenarios = NoScenario

ForcesNext == ForwardDynamics

ForcesSpec == ForcesInit /\ [][ForcesNext]_vars

\* C25: forward_dynamics calls the model once per declared external-force
\* set and returns one column per set, column i holding the result for set
\* i, whatever the number of intervals; with no set declared it calls the
\* model once and returns one column.
C25_OneColumnPerForceSet ==
    evaluation.variant = "forward_dynamics" =>
        LET n_sets == evaluation.in.external_forces
            expected == IF n_sets = 0 THEN 1 ELSE n_sets
        IN  /\ evaluation.outcome = "returned"
            /\ Len(evaluation.log) = expected
            /\ Len(evaluation.dxdt) = expected
            /\ n_sets > 0 => \A i \in 1..n_sets :
                                /\ evaluation.dxdt[i] = ForceColumn(i)
                                /\ evaluation.log[i].lo = i

(***************************************************************************)
(* Programs of one phase more, so that a phase that shares may stand       *)
(* between two phases that own their variables.                            *)
(***************************************************************************)
DecodePrograms ==
    {[n_phases |-> MaxPhases + 1, nq |-> 1, scaled |-> FALSE, nlp |-> l] :
        l \in {m \in NlpLists(MaxPhases + 1, 1) :
                  \A p \in 0..MaxPhases : m[p].ns = 1 /\ m[p].degree = 0}}

DecodeInit == \E program \in DecodePrograms : InitOf(program)

DecodeNext ==
    \/ define_ocp_shooting_points
    \/ define_ocp_bounds
    \/ DefineOcpInitialGuess
    \/ ToDictionaries

DecodeSpec == DecodeInit /\ [][DecodeNext]_vars

\* where the loop of to_dictionaries finds the block of the owning phase p
BlockOffset(p, start, owns, n_phase) ==
    start + SumSeq([i \in 1..p |-> IF owns[i - 1] THEN n_phase[i - 1] ELSE 0])

\* the dictionary decoded from the block of phase p
BlockStates(p) ==
    LET offset == BlockOffset(p, 0, [r \in Phases |-> OwnsStates(r)], n_phase_x)
    IN  FilledDict(StateSlots(ocp),
                   Reshape(PySlice(decoded.data, offset, offset + n_phase_x[p]),
                           StatesShape(ocp)))

BlockControls(p) ==
    LET offset == BlockOffset(p, n_all_x, [r \in Phases |-> OwnsControls(r)], n_phase_u)
    IN  FilledDict(ControlSlots(ocp),
                   Reshape(PySlice(decoded.data, offset, offset + n_phase_u[p]),
                           ControlsShape(ocp)))

\* C26: to_dictionaries returns one state and one control dictionary per
\* phase, and position p of each list holds what was decoded for phase p,
\* also when a phase of lower index takes its variables from another phase.
C26_DictionariesByPhase ==
    decoded.status = "returned" =>
        /\ Len(decoded.states) = ocp.n_phases
        /\ Len(decoded.controls) = ocp.n_phases
        /\ \A p \in Phases :
              /\ OwnsStates(p) => decoded.states[p + 1] = BlockStates(p)
              /\ OwnsControls(p) => decoded.controls[p + 1] = BlockControls(p)

(***************************************************************************)
(* define_ocp_initial_guess for plain and noised initial guesses of one    *)
(* phase.                                                                  *)
(***************************************************************************)
DefineOcpInitialGuessNoised ==
    \E types \in [Phases -> InterpolationTypes], noised \in [Phases -> BOOLEAN] :
        define_ocp_initial_guess_of(types, noised)

GuessInit == \E program \in {q \in Programs : q.n_phases = 1} : InitOf(program)

GuessNext ==
    \/ define_ocp_shooting_points
    \/ define_ocp_bounds
    \/ DefineOcpInitialGuessNoised

GuessSpec == GuessInit /\ [][GuessNext]_vars

\* the sample of a state block at node k, collocation point point
SampleOf(block, p, k, point) ==
    LET nx == StatesShape(ocp)
        first == k * nx * (ocp.nlp[p].degree + 1) + point * nx
    IN  SubSeq(block, first + 1, first + nx)

\* C27: in a collocation phase of degree d whose state initial guess is an
\* ALL_POINTS table, define_ocp_initial_guess gives the sample at node k,
\* point p the table value of index k * (d + 1) + p, whether the guess is
\* plain or noised.
C27_AllPointsByIndex ==
    [][\A types \in [Phases -> InterpolationTypes], noised \in [Phases -> BOOLEAN] :
          (define_ocp_initial_guess_of(types, noised) /\ raised'.error = "none") =>
              \A p \in Phases :
                  (is_direct_collocation(ocp.nlp[p]) /\ types[p] = "ALL_POINTS"
                   /\ ocp.nlp[p].use_states_from_phase_idx = p) =>
                      \A k \in 0..ocp.nlp[p].ns :
                          \A point \in 0..(IF k = ocp.nlp[p].ns THEN 0 ELSE ocp.nlp[p].degree) :
                              SampleOf(x_init'[p], p, k, point)
                                  = AllPointsEvaluateAt(k * (ocp.nlp[p].degree + 1) + point)]_vars

\* the samples phase p's own transcription and control type give its blocks
OwnStateSamples(p) ==
    ocp.nlp[p].ns * (IF is_direct_collocation(ocp.nlp[p]) THEN ocp.nlp[p].degree + 1 ELSE 1) + 1
OwnControlSamples(p) ==
    IF ocp.nlp[p].control_type = "LINEAR_CONTINUOUS" THEN ocp.nlp[p].ns + 1 ELSE ocp.nlp[p].ns

\* C28: in bounds() and init() the scaling vector of phase p's state block
\* and of its control block has the number of samples phase p's own
\* transcription and control type give, also when the phase differs from
\* phase 0 in ode solver or control type.
C28_ScalingOfOwnPhase ==
    pc = "VECTOR_READY" =>
        \A p \in Phases :
            /\ Len(XScalingVector(p)) = StatesShape(ocp) * OwnStateSamples(p)
            /\ Len(UScalingVector(p)) = ControlsShape(ocp) * OwnControlSamples(p)

====
